---------------------------- MODULE Spec2Model ----------------------------
(***************************************************************************)
(* A model of the routing-and-pipeline engine of vigo: the route tree and  *)
(* its backtracking matcher (router.go), the request context and its       *)
(* Next/Stop/Skip/handleErr pipeline (x.go), and ServeHTTP, which joins    *)
(* the two.                                                                *)
(*                                                                         *)
(* Conventions.  A Go string is a sequence of one-character strings, so    *)
(* that slicing and searching are modelled as the code does them.  A nil   *)
(* pointer or nil interface is the empty sequence <<>> and a present value *)
(* v is <<v>>; a nil error is the empty string "".  Chain indices (x.fid)   *)
(* are 0-based as in the code; TLA+ sequences are 1-based, so the entry at *)
(* index i is fcs[i + 1].  Route nodes live in a heap, the sequence nodes; *)
(* a *route is an index into it and 0 is the nil *route.                   *)
(***************************************************************************)
EXTENDS Integers, Sequences, FiniteSets, Bags, TLC

VARIABLES
    nodes,      \* the heap of route nodes (router.go: type route)
    x,          \* the pooled request context (x.go: type X)
    status,     \* the status code written to the response, 0 when none
    subR,       \* the *route returned by the last match, 0 for nil
    stack,      \* the Go call stack of the request: Next / fc / handleErr frames
    trace,      \* history: what the handlers of the current request did, in order
    pc,         \* "setup": no request was served yet; "idle": no request in
                \* flight, the context is back in the pool; "serving": inside ServeHTTP
    regs,       \* history: the registration calls made so far, in order
    em,         \* the EventManager (contrib/event), <<>> when none was created
    gos,        \* the goroutines of the EventManager and the call in progress on it (a bag);
                \* with concurrent registration, the syncCache calls of the registering goroutine
    hist        \* history: counts of the calls on the EventManager and of the task runs

vars == <<nodes, x, status, subR, stack, trace, pc, regs, em, gos, hist>>

\* the variables of the router and of the request, and those of the scheduler
rvars == <<nodes, x, status, subR, stack, trace, pc, regs>>
evars == <<em, gos, hist>>

\* no EventManager is in use
NoEventManager == em = <<>> /\ gos = <<>> /\ hist = <<>>

(***************************************************************************)
(* Bounds of the model.                                                    *)
(***************************************************************************)
MaxChain == 4       \* longest handler chain enumerated by the pipeline specification
MaxRegs  == 3       \* registration calls made in the matcher specification
MaxSegs  == 3       \* segments of a request path

(***************************************************************************)
(* Handlers.  A chain entry is a Go func value; what matters to the        *)
(* pipeline is its dynamic type (the type switch of X.Next, the type       *)
(* assertion of X.handleErr) and what its body does with the context: at   *)
(* most one control call (Next, Stop or Skip(n)) between its two side      *)
(* effects, and the value and error it returns.                            *)
(***************************************************************************)
NoAct   == [op |-> "none", n |-> 0]
ActNext == [op |-> "Next", n |-> 0]
ActStop == [op |-> "Stop", n |-> 0]
ActSkip == [op |-> "Skip", n |-> 1]
\* the body assigns x.PipeValue = "data"
ActSetPipe == [op |-> "SetPipe", n |-> 0]

Handler(type, id, act, val, err) ==
    [type |-> type, id |-> id, act |-> act, val |-> val, err |-> err]

\* func(*X) (any, error), the result of TryStandardize
FuncX2AnyErr(id, act, err) == Handler("FuncX2AnyErr", id, act, <<>>, err)
\* a handler that returns the non-nil value v and a nil error, standardized
Returns(id, act, v) == Handler("FuncX2AnyErr", id, act, <<v>>, "")
\* func(*X, error) error
FuncErr(id, act, err) == Handler("FuncErr", id, act, <<>>, err)
\* var SkipBefore FuncSkipBefore = func() {}
SkipBefore == Handler("FuncSkipBefore", 0, NoAct, <<>>, "")

\* the closure TryStandardize makes of a user function func(*X, *T) ..., T a
\* struct: act, val and err are what the user function does and returns, bind
\* is the error x.Parse returns for the request ("" for nil)
Adapted(id, act, val, err, bind) ==
    [type |-> "FuncX2AnyErr", id |-> id, act |-> act, val |-> val, err |-> err, bind |-> bind]
IsAdapted(fc) == "bind" \in DOMAIN fc

\* (mutant) a closure that calls the user function whatever x.Parse returned
Closure_CallAnyway(fc) == [act |-> fc.act, val |-> fc.val, err |-> fc.err, invoked |-> TRUE]

\* what the call fc(x) of a chain entry does: the closure of an adapted
\* function returns nil and the error of x.Parse without calling the function
\*     if err := x.Parse(val.Interface()); err != nil { return nil, err }
\* and otherwise what the function does; any other entry is the function
Closure(fc) ==
    IF IsAdapted(fc) /\ fc.bind # ""
    THEN [act |-> NoAct, val |-> <<>>, err |-> fc.bind, invoked |-> FALSE]
    ELSE [act |-> fc.act, val |-> fc.val, err |-> fc.err, invoked |-> TRUE]

\* (mutant) every chain entry passes for an error handler
IsFuncErr_Any(fc) == fc.type \in {"FuncErr", "FuncX2AnyErr"}

\* the type assertion fc.(FuncErr) of X.handleErr
IsFuncErr(fc) == fc.type = "FuncErr"
\* the case FuncX2AnyErr of the type switch of X.Next
IsFuncX2AnyErr(fc) == fc.type = "FuncX2AnyErr"
\* the type assertion fcs[i].(FuncSkipBefore) of ServeHTTP
IsFuncSkipBefore(fc) == fc.type = "FuncSkipBefore"

(***************************************************************************)
(* The request context.                                                    *)
(***************************************************************************)
\* PathParams is the slice x.PathParams as the program sees it (its elements
\* up to len), ppArray the backing array of that slice, all of its slots up to
\* cap; a slot that holds Param{} holds no string.
PathParamsCap == 10
ZeroParam == [Key |-> <<>>, Value |-> <<>>]

\* &X{PathParams: make(PathParams, 0, 10)}
NewX ==
    [writer |-> <<>>, Request |-> <<>>, PathParams |-> <<>>, routeVars |-> <<>>,
     fcs |-> <<>>, fcsInfo |-> <<>>, fid |-> 0, PipeValue |-> <<>>,
     ppArray |-> [i \in 1..PathParamsCap |-> ZeroParam]]

StopFid == 99999999

\* (mutant) Stop leaves the cursor where it is
X_Stop_Noop(c) == c

\* func (x *X) Stop()
X_Stop(c) == [c EXCEPT !.fid = StopFid]

\* A uint argument.  Go's int and uint have the same width w (32 or 64), and
\* int(u) wraps: it is u below 2^(w-1) and u - 2^w from there on.  A small
\* value n is Uint(n); a value near the top of the range is MaxUintMinus(d),
\* the number 2^w - 1 - d, whose conversion is -(d + 1) for every width.
Uint(n) == [big |-> FALSE, v |-> n]
MaxUintMinus(d) == [big |-> TRUE, v |-> d]

\* int(counts[0])
ToInt(u) == IF u.big THEN 0 - (u.v + 1) ELSE u.v

\* count := 1; if len(counts) > 0 { count = int(counts[0]) }
SkipCount(counts) == IF Len(counts) > 0 THEN ToInt(counts[1]) ELSE 1

\* func (x *X) Skip(counts ...uint): x.fid += int(count)
X_Skip(c, count) == [c EXCEPT !.fid = c.fid + count]

\* the body calls x.Skip(u)
ActSkipN(u) == [op |-> "Skip", n |-> SkipCount(<<u>>), u |-> u]

(***************************************************************************)
(* The call stack.  Per request the handlers run on one goroutine, so the  *)
(* request is a sequential program; a frame records where a function of    *)
(* x.go, or a handler, is suspended: a Next frame at "loop" is at the head *)
(* of its for loop, at "call" it waits for fc(x) to return; a handleErr    *)
(* frame likewise; an fc frame is a handler before ("body") or after       *)
(* ("ret") its control call.  err is the error a handleErr frame carries   *)
(* or an error handler was called with.                                    *)
(***************************************************************************)
Frame(fn, at, idx, err) == [fn |-> fn, pc |-> at, idx |-> idx, err |-> err]

Top == stack[Len(stack)]
Pop(s) == SubSeq(s, 1, Len(s) - 1)
SetTop(s, f) == [s EXCEPT ![Len(s)] = f]

\* pv is the pipe slot when the event happens: for "enter" the value a
\* handler declared func(*X, any) is called with (casted(x, x.PipeValue))
Event(ev, idx, err) ==
    [ev |-> ev, idx |-> idx, err |-> err, fid |-> x.fid, pv |-> x.PipeValue]

\* the loop condition of X.Next and X.handleErr: x.fid >= len(x.fcs)
Exhausted(c) == c.fid >= Len(c.fcs)

\* X.Next, one pass through the head of the for loop: return when the cursor
\* is past the chain; else take the entry at the cursor, advance the cursor
\* and dispatch on the entry's type.  Only a FuncX2AnyErr is called.
X_Next ==
    /\ pc = "serving"
    /\ stack # <<>>
    /\ Top.fn = "Next" /\ Top.pc = "loop"
    /\ IF Exhausted(x)
       THEN /\ stack' = Pop(stack)
            /\ UNCHANGED <<x, trace>>
       ELSE LET idx == x.fid
                fc  == x.fcs[idx + 1]
            IN /\ x' = [x EXCEPT !.fid = idx + 1]
               /\ IF IsFuncX2AnyErr(fc)
                  THEN /\ stack' = Append(SetTop(stack, Frame("Next", "call", idx, "")),
                                          Frame("fc", "body", idx, ""))
                       /\ trace' = Append(trace, Event("enter", idx, ""))
                  ELSE /\ UNCHANGED <<stack, trace>>
    /\ UNCHANGED <<nodes, status, subR, pc, regs, em, gos, hist>>

\* The body of a handler, up to and including its control call.
HandlerBody ==
    /\ pc = "serving"
    /\ stack # <<>>
    /\ Top.fn = "fc" /\ Top.pc = "body"
    /\ LET fc  == x.fcs[Top.idx + 1]
           act == Closure(fc).act
           ret == SetTop(stack, [Top EXCEPT !.pc = "ret"])
           called == IF IsAdapted(fc) /\ Closure(fc).invoked
                     THEN Append(trace, Event("invoke", Top.idx, "")) ELSE trace
       IN /\ x' = CASE act.op = "Stop" -> X_Stop(x)
                    [] act.op = "Skip" -> X_Skip(x, act.n)
                    [] act.op = "SetPipe" -> [x EXCEPT !.PipeValue = <<"data">>]
                    [] OTHER -> x
          /\ stack' = IF act.op = "Next"
                      THEN Append(ret, Frame("Next", "loop", 0, ""))
                      ELSE ret
          /\ trace' = IF act.op = "none" THEN called
                      ELSE Append(called, Event(act.op, Top.idx, ""))
    /\ UNCHANGED <<nodes, status, subR, pc, regs, em, gos, hist>>

\* (mutant) X.Next returns after one handler instead of looping
AfterCall_NoLoop(s, c, val, err) ==
    LET caller == s[Len(s)]
    IN IF caller.fn = "Next"
       THEN [x |-> [c EXCEPT !.PipeValue = val],
             stack |-> IF err # ""
                       THEN Append(s, Frame("handleErr", "loop", caller.idx, err))
                       ELSE Pop(s)]
       ELSE [x |-> c,
             stack |-> IF err = ""
                       THEN Pop(Pop(s))
                       ELSE SetTop(s, Frame("handleErr", "loop", caller.idx, err))]

\* (mutant) X.Next drops the value that fc returns
AfterCall_DropValue(s, c, val, err) ==
    LET caller == s[Len(s)]
    IN IF caller.fn = "Next"
       THEN [x |-> c,
             stack |-> IF err # ""
                       THEN Append(s, Frame("handleErr", "loop", caller.idx, err))
                       ELSE SetTop(s, Frame("Next", "loop", 0, ""))]
       ELSE [x |-> c,
             stack |-> IF err = ""
                       THEN Pop(Pop(s))
                       ELSE SetTop(s, Frame("handleErr", "loop", caller.idx, err))]

\* What the caller does with the results of fc.  In X.Next:
\*     x.PipeValue, err = fc(x); if err != nil { handleErr(err); return }
\* In X.handleErr:
\*     err = fc(x, err); if err == nil { return true }
\* and X.Next returns as soon as handleErr has returned.
AfterCall(s, c, val, err) ==
    LET caller == s[Len(s)]
    IN IF caller.fn = "Next"
       THEN [x |-> [c EXCEPT !.PipeValue = val],
             stack |-> IF err # ""
                       THEN Append(s, Frame("handleErr", "loop", caller.idx, err))
                       ELSE SetTop(s, Frame("Next", "loop", 0, ""))]
       ELSE [x |-> c,
             stack |-> IF err = ""
                       THEN Pop(Pop(s))
                       ELSE SetTop(s, Frame("handleErr", "loop", caller.idx, err))]

\* A handler returns to X.Next or X.handleErr.
HandlerReturn ==
    /\ pc = "serving"
    /\ stack # <<>>
    /\ Top.fn = "fc" /\ Top.pc = "ret"
    /\ LET fc  == Closure(x.fcs[Top.idx + 1])
           res == AfterCall(Pop(stack), x, fc.val, fc.err)
       IN /\ x' = res.x
          /\ stack' = res.stack
          /\ trace' = Append(trace,
                 Event(IF Pop(stack)[Len(stack) - 1].fn = "handleErr"
                       THEN "errexit" ELSE "exit", Top.idx, fc.err))
    /\ UNCHANGED <<nodes, status, subR, pc, regs, em, gos, hist>>

\* X.handleErr, one pass through its loop: return false (and X.Next returns)
\* when the cursor is past the chain; else take the entry at the cursor,
\* advance the cursor and call the entry if it is a FuncErr.
X_handleErr ==
    /\ pc = "serving"
    /\ stack # <<>>
    /\ Top.fn = "handleErr" /\ Top.pc = "loop"
    /\ IF Exhausted(x)
       THEN /\ stack' = Pop(Pop(stack))
            /\ UNCHANGED <<x, trace>>
       ELSE LET idx == x.fid
                fc  == x.fcs[idx + 1]
            IN /\ x' = [x EXCEPT !.fid = idx + 1]
               /\ IF IsFuncErr(fc)
                  THEN /\ stack' = Append(SetTop(stack, [Top EXCEPT !.pc = "call"]),
                                          Frame("fc", "body", idx, Top.err))
                       /\ trace' = Append(trace, Event("errenter", idx, Top.err))
                  ELSE /\ UNCHANGED <<stack, trace>>
    /\ UNCHANGED <<nodes, status, subR, pc, regs, em, gos, hist>>

\* (mutant) release that leaves the cursor and the pipe value
release_KeepCursor(c) ==
    [c EXCEPT !.ppArray = [i \in 1..Len(c.ppArray) |->
                              IF i <= Len(c.PathParams) THEN ZeroParam ELSE c.ppArray[i]],
              !.PathParams = <<>>, !.Request = <<>>, !.writer = <<>>,
              !.routeVars = <<>>, !.fcs = <<>>]

\* func release(x *X), deferred by ServeHTTP
release(c) ==
    [c EXCEPT !.fid = 0,
              !.ppArray = [i \in 1..Len(c.ppArray) |->
                              IF i <= Len(c.PathParams) THEN ZeroParam ELSE c.ppArray[i]],
              !.PathParams = <<>>, !.Request = <<>>, !.writer = <<>>,
              !.routeVars = <<>>, !.fcs = <<>>, !.PipeValue = <<>>]

\* ServeHTTP returns: the deferred release(x) runs.  What was observed of the
\* request (its response recorder, the match result, the trace) goes with it.
Release ==
    /\ pc = "serving"
    /\ stack = <<>>
    /\ x' = release(x)
    /\ pc' = "idle"
    /\ status' = 0
    /\ subR' = 0
    /\ trace' = <<>>
    /\ UNCHANGED <<nodes, stack, regs, em, gos, hist>>

(***************************************************************************)
(* Strings (package strings), on sequences of characters.  Go indices are  *)
(* 0-based and s[lo:hi] excludes hi.                                       *)
(***************************************************************************)
Slice(s, lo, hi) == SubSeq(s, lo + 1, hi)
HasPrefix(s, p) == Len(s) >= Len(p) /\ Slice(s, 0, Len(p)) = p
HasSuffix(s, p) == Len(s) >= Len(p) /\ Slice(s, Len(s) - Len(p), Len(s)) = p
ContainsAny(s, chars) == \E i \in 1..Len(s) : s[i] \in chars
Count(s, c) == Cardinality({i \in 1..Len(s) : s[i] = c})
\* strings.IndexByte: the 0-based index of the first c in s, -1 if none
IndexByte(s, c) ==
    IF \E i \in 1..Len(s) : s[i] = c
    THEN (CHOOSE i \in 1..Len(s) : s[i] = c /\ \A j \in 1..(i - 1) : s[j] # c) - 1
    ELSE -1

\* strings.Split(s, "/")
RECURSIVE Split(_)
Split(s) ==
    LET i == IndexByte(s, "/")
    IN IF i = -1 THEN <<s>>
       ELSE <<Slice(s, 0, i)>> \o Split(Slice(s, i + 1, Len(s)))

(***************************************************************************)
(* Segment parsing.  A compiled regular expression is modelled by the      *)
(* sequence of its parts between ^ and $: a quoted literal character, or a *)
(* named group (?P<name>pattern).  The patterns the model compiles are the *)
(* default [^/]+ and [0-9]+; a group with an empty name does not compile.  *)
(***************************************************************************)
NotSlashPlus == <<"[", "^", "/", "]", "+">>
DigitPlus    == <<"[", "0", "-", "9", "]", "+">>
Digits       == {"0", "1", "2", "3", "4", "5", "6", "7", "8", "9"}

Lit(c) == [lit |-> TRUE, c |-> c, name |-> <<>>, pattern |-> <<>>]
Group(name, pattern) == [lit |-> FALSE, c |-> "", name |-> name, pattern |-> pattern]

\* the index of the } that closes the { at index start (balance counting), -1 if none
RECURSIVE MatchingBrace(_, _, _)
MatchingBrace(seg, i, balance) ==
    IF i >= Len(seg) THEN -1
    ELSE IF seg[i + 1] = "{" THEN MatchingBrace(seg, i + 1, balance + 1)
    ELSE IF seg[i + 1] = "}"
         THEN IF balance = 1 THEN i ELSE MatchingBrace(seg, i + 1, balance - 1)
    ELSE MatchingBrace(seg, i + 1, balance)

QuoteMeta(s) == [i \in 1..Len(s) |-> Lit(s[i])]

\* the for idx < n loop of parseSegment that builds reStr
RECURSIVE BuildRegex(_, _)
BuildRegex(seg, idx) ==
    IF idx >= Len(seg) THEN <<>>
    ELSE LET rel == IndexByte(Slice(seg, idx, Len(seg)), "{")
         IN IF rel = -1 THEN QuoteMeta(Slice(seg, idx, Len(seg)))
            ELSE LET start == rel + idx
                     end   == MatchingBrace(seg, start + 1, 1)
                 IN IF end = -1
                    THEN QuoteMeta(Slice(seg, idx, start)) \o QuoteMeta(Slice(seg, start, Len(seg)))
                    ELSE LET content == Slice(seg, start + 1, end)
                             colon   == IndexByte(content, ":")
                             name    == IF colon = -1 THEN content ELSE Slice(content, 0, colon)
                             pattern == IF colon = -1 THEN NotSlashPlus
                                        ELSE Slice(content, colon + 1, Len(content))
                         IN QuoteMeta(Slice(seg, idx, start))
                              \o <<Group(name, pattern)>>
                              \o BuildRegex(seg, end + 1)

\* regexp.Compile succeeds
Compiles(re) ==
    \A i \in 1..Len(re) :
        ~re[i].lit => (re[i].name # <<>> /\ re[i].pattern \in {NotSlashPlus, DigitPlus})

\* the characters a group pattern accepts
InClass(pattern, c) == IF pattern = DigitPlus THEN c \in Digits ELSE c # "/"

\* re.FindStringSubmatch(seg) for the anchored expression re: <<>> when there is
\* no match, else <<captures>>, the captures being the (name, text) pairs of the
\* groups in order.  A group is greedy: the longest text is tried first.
RECURSIVE FindSubmatch(_, _, _)
RECURSIVE GroupMatch(_, _, _, _)
FindSubmatch(re, seg, pos) ==
    IF re = <<>> THEN (IF pos = Len(seg) THEN << <<>> >> ELSE <<>>)
    ELSE LET t == Head(re)
         IN IF t.lit
            THEN IF pos < Len(seg) /\ seg[pos + 1] = t.c
                 THEN FindSubmatch(Tail(re), seg, pos + 1)
                 ELSE <<>>
            ELSE GroupMatch(re, seg, pos, Len(seg) - pos)
GroupMatch(re, seg, pos, n) ==
    IF n < 1 THEN <<>>
    ELSE LET t    == Head(re)
             text == Slice(seg, pos, pos + n)
             rest == IF \A i \in 1..n : InClass(t.pattern, text[i])
                     THEN FindSubmatch(Tail(re), seg, pos + n)
                     ELSE <<>>
         IN IF rest # <<>>
            THEN << <<[Key |-> t.name, Value |-> text]>> \o rest[1] >>
            ELSE GroupMatch(re, seg, pos, n - 1)

\* (mutant) the segment * makes a catch-all node
parseSegment_StarCatchAll(seg) ==
    IF seg = <<"*">> THEN [kind |-> "nodeCatchAll", paramName |-> <<>>, regex |-> <<>>]
    ELSE [kind |-> "nodeStatic", paramName |-> <<>>, regex |-> <<>>]

\* func parseSegment(seg string) (nodeType, string, *regexp.Regexp, []string)
parseSegment(seg) ==
    LET parsed(kind, name, re) == [kind |-> kind, paramName |-> name, regex |-> re]
        re == BuildRegex(seg, 0)
    IN IF seg = <<"*", "*">> THEN parsed("nodeCatchAll", <<>>, <<>>)
       ELSE IF seg = <<"*">> THEN parsed("nodeWildcard", <<>>, <<>>)
       ELSE IF ~ContainsAny(seg, {"{", "*"}) THEN parsed("nodeStatic", <<>>, <<>>)
       ELSE IF HasPrefix(seg, <<"{">>) /\ HasSuffix(seg, <<":", "*", "}">>)
            THEN parsed("nodeCatchAll", Slice(seg, 1, Len(seg) - 3), <<>>)
       ELSE IF /\ HasPrefix(seg, <<"{">>) /\ HasSuffix(seg, <<"}">>)
               /\ Count(seg, "{") = 1
               /\ ~ContainsAny(Slice(seg, 1, Len(seg) - 1), {":"})
            THEN parsed("nodeParam", Slice(seg, 1, Len(seg) - 1), <<>>)
       ELSE IF Compiles(re) THEN parsed("nodeRegex", <<>>, <<re>>)
       ELSE parsed("nodeStatic", <<>>, <<>>)

(***************************************************************************)
(* The route tree.  A map is a function on the set of its keys; reading a  *)
(* missing key gives the nil slice.                                        *)
(***************************************************************************)
\* a Go statement computes a value once and the statements after it use the
\* result: F applied to the value of e
Bind(e, F(_)) == CHOOSE res \in {F(v) : v \in {e}} : TRUE

NoMap == [k \in {} |-> <<>>]
MapGet(m, k) == IF k \in DOMAIN m THEN m[k] ELSE <<>>
\* (mutant) an assignment that drops the other entries of the map
MapSet_Only(m, k, v) == [j \in {k} |-> v]

MapSet(m, k, v) == [j \in DOMAIN m \cup {k} |-> IF j = k THEN v ELSE m[j]]
\* (mutant) delete that leaves the entry in the map
MapDelete_Keep(m, k) == m

MapDelete(m, k) == [j \in DOMAIN m \ {k} |-> m[j]]

\* &route{...} of get_subrouter (parent # 0) and of NewRouter (parent = 0)
NewRoute(kind, fragment, paramName, regex, parent) ==
    [kind |-> kind, fragment |-> fragment, regex |-> regex, paramName |-> paramName,
     children |-> <<>>, parent |-> parent,
     funcBefore |-> <<>>, funcBeforeInfo |-> <<>>, funcAfter |-> <<>>, funcAfterInfo |-> <<>>,
     handlersCache |-> NoMap, handlersInfoCache |-> NoMap, methods |-> NoMap]

\* func NewRouter() Router
NewRouter == NewRoute("nodeStatic", <<>>, <<>>, <<>>, 0)

\* &HandlerInfo{Func: fc, ...}
HandlerInfo(fc) == [Func |-> fc]
Infos(fcs) == [i \in 1..Len(fcs) |-> HandlerInfo(fcs[i])]

\* &RouteHandler{Handlers: ..., HandlersInfo: ...}
RouteHandler(handlers, infos) == [Handlers |-> handlers, HandlersInfo |-> infos]

IsWild(kind) == kind \in {"nodeWildcard", "nodeCatchAll"}

\* (mutant) the comparator without the wildcard rule: insertion order is kept
less_InsertionOrder(h, ch, i, j) == i < j

\* the less function handed to sort.SliceStable in get_subrouter, on the child
\* list ch and the 0-based indices i and j
less(h, ch, i, j) ==
    LET isWildI == IsWild(h[ch[i + 1]].kind)
        isWildJ == IsWild(h[ch[j + 1]].kind)
    IN IF isWildI /\ ~isWildJ THEN FALSE
       ELSE IF ~isWildI /\ isWildJ THEN TRUE
       ELSE i < j

Swap(ch, i, j) == [ch EXCEPT ![i + 1] = ch[j + 1], ![j + 1] = ch[i + 1]]

\* sort.SliceStable on at most 20 elements is one insertion sort:
\*   for i := a + 1; i < b; i++ { for j := i; j > a && less(j, j-1); j-- { swap(j, j-1) } }
RECURSIVE InsertionInner(_, _, _)
InsertionInner(h, ch, j) ==
    IF j > 0 /\ less(h, ch, j, j - 1)
    THEN Bind(Swap(ch, j, j - 1), LAMBDA c : InsertionInner(h, c, j - 1))
    ELSE ch
RECURSIVE InsertionSort(_, _, _)
InsertionSort(h, ch, i) ==
    IF i < Len(ch) THEN Bind(InsertionInner(h, ch, i), LAMBDA c : InsertionSort(h, c, i + 1))
    ELSE ch
\* (mutant) the child list is left as appended
SliceStable_None(h, ch) == ch

SliceStable(h, ch) == InsertionSort(h, ch, 1)

\* the child of node cur with the kind and raw fragment of seg, 0 if none
FindChild(h, cur, kind, seg) ==
    LET ch == h[cur].children
        hits == {i \in 1..Len(ch) : h[ch[i]].kind = kind /\ h[ch[i]].fragment = seg}
    IN IF hits = {} THEN 0 ELSE ch[CHOOSE i \in hits : \A j \in hits : i <= j]

\* the body of the loop over the segments in get_subrouter: find the child for
\* seg under cur, or create it, append it and sort the child list again
RECURSIVE Walk(_, _, _)
Walk(h, cur, segments) ==
    IF segments = <<>> THEN [nodes |-> h, node |-> cur]
    ELSE LET seg  == Head(segments)
             ps   == parseSegment(seg)
             next == FindChild(h, cur, ps.kind, seg)
         IN IF next # 0 THEN Walk(h, next, Tail(segments))
            ELSE LET new == Len(h) + 1
                     h1  == Append(h, NewRoute(ps.kind, seg, ps.paramName, ps.regex, cur))
                     h2  == [h1 EXCEPT ![cur].children =
                                 SliceStable(h1, Append(h1[cur].children, new))]
                 IN Bind(h2, LAMBDA hv : Walk(hv, new, Tail(segments)))

\* the path of get_subrouter without one leading and one trailing slash
TrimSlashes(path) ==
    LET p1 == IF Len(path) > 0 /\ path[1] = "/" THEN Slice(path, 1, Len(path)) ELSE path
    IN IF Len(p1) > 0 /\ p1[Len(p1)] = "/" THEN Slice(p1, 0, Len(p1) - 1) ELSE p1

\* func (r *route) get_subrouter(path string) *route
get_subrouter(h, r, path) ==
    IF path = <<>> \/ path = <<"/">> THEN [nodes |-> h, node |-> r]
    ELSE Bind(Split(TrimSlashes(path)), LAMBDA segments : Walk(h, r, segments))

\* the before and after sequences (and their infos) that syncCache collects
\* while climbing from node r to the root:
\*   before = tmpr.funcBefore ++ before;  after = after ++ tmpr.funcAfter
RECURSIVE Climb(_, _, _)
Climb(h, tmpr, acc) ==
    IF tmpr = 0 THEN acc
    ELSE Bind([before     |-> h[tmpr].funcBefore \o acc.before,
               beforeInfo |-> h[tmpr].funcBeforeInfo \o acc.beforeInfo,
               after      |-> acc.after \o h[tmpr].funcAfter,
               afterInfo  |-> acc.afterInfo \o h[tmpr].funcAfterInfo],
              LAMBDA a : Climb(h, h[tmpr].parent, a))

\* func (r *route) syncCache()
RECURSIVE syncCache(_, _)
RECURSIVE syncChildren(_, _, _)
syncCache(h, r) ==
    LET ms == h[r].methods
        cached(c) ==
            [h EXCEPT
               ![r].handlersCache =
                   [k \in DOMAIN ms |-> c.before \o ms[k].Handlers \o c.after],
               ![r].handlersInfoCache =
                   [k \in DOMAIN ms |-> c.beforeInfo \o ms[k].HandlersInfo \o c.afterInfo]]
    IN Bind(Climb(h, r, [before |-> <<>>, beforeInfo |-> <<>>, after |-> <<>>, afterInfo |-> <<>>]),
            LAMBDA c : Bind(cached(c), LAMBDA h1 : syncChildren(h1, h1[r].children, 1)))
syncChildren(h, ch, i) ==
    IF i > Len(ch) THEN h
    ELSE Bind(syncCache(h, ch[i]), LAMBDA h1 : syncChildren(h1, ch, i + 1))

(***************************************************************************)
(* The values handed to Set, Use and After, and TryStandardize.  A value   *)
(* that is not one of the three entry types carries its reflect.Type in    *)
(* sig: the kind, and for a func the types of its parameters and results.  *)
(***************************************************************************)
FuncType(in, out) == [kind |-> "Func", in |-> in, out |-> out, elem |-> ""]
\* a value of a type that is not a func type: an int, a struct, a *struct
OtherType(kind, elem) == [kind |-> kind, in |-> <<>>, out |-> <<>>, elem |-> elem]

\* a value as the caller writes it; name is its type as %T prints it
Value(name, id, sig) ==
    [type |-> name, id |-> id, act |-> NoAct, val |-> <<>>, err |-> "", sig |-> sig]

\* reflect.TypeOf(fn)
TypeOf(fn) ==
    IF "sig" \in DOMAIN fn THEN fn.sig
    ELSE CASE fn.type = "FuncX2AnyErr" -> FuncType(<<"*X">>, <<"any", "error">>)
           [] fn.type = "FuncErr" -> FuncType(<<"*X", "error">>, <<"error">>)
           [] fn.type = "FuncSkipBefore" -> FuncType(<<>>, <<>>)

\* (mutant) a TryStandardize that takes every value
TryStandardize_All(fn) == [ok |-> TRUE, std |-> [fn EXCEPT !.type = "FuncX2AnyErr"]]

\* func TryStandardize(fn any) (func(*X) (any, error), bool): the closure it
\* returns has the type FuncX2AnyErr and does what fn does
TryStandardize(fn) ==
    LET fnType == TypeOf(fn)
        numIn  == Len(fnType.in)
        numOut == Len(fnType.out)
        no     == [ok |-> FALSE, std |-> <<>>]
        closure == [ok |-> TRUE, std |-> [fn EXCEPT !.type = "FuncX2AnyErr"]]
    IN IF fnType.kind # "Func" THEN no
       ELSE IF numIn > 2 \/ numOut > 2 THEN no
       ELSE IF IsFuncX2AnyErr(fn) THEN [ok |-> TRUE, std |-> fn]
       ELSE IF numIn = 2 /\ fnType.in[1] = "http.ResponseWriter"
                        /\ fnType.in[2] = "*http.Request" THEN closure
       ELSE IF numIn > 0 /\ fnType.in[1] = "*X" THEN closure
       ELSE no

\* the else branch of the loop of Set: a struct or a pointer to a struct
\* describes the arguments, anything else is fatal
IsStruct(t) == t.kind = "Struct" \/ (t.kind = "Ptr" /\ t.elem = "Struct")

\* Set ends in logv...Fatal(): "handler type not support"
SetFatal(handlers) ==
    \E i \in 1..Len(handlers) :
        /\ ~IsFuncErr(handlers[i])
        /\ ~IsFuncSkipBefore(handlers[i])
        /\ ~TryStandardize(handlers[i]).ok
        /\ ~IsStruct(TypeOf(handlers[i]))

\* the handlers Set keeps (filterHandlers): a FuncErr and a FuncSkipBefore as
\* they are, every other func standardized, a struct left out
RECURSIVE FilterHandlers(_)
FilterHandlers(handlers) ==
    IF handlers = <<>> THEN <<>>
    ELSE LET fc == Head(handlers)
         IN IF IsFuncErr(fc) \/ IsFuncSkipBefore(fc) THEN <<fc>> \o FilterHandlers(Tail(handlers))
            ELSE IF TryStandardize(fc).ok
            THEN <<TryStandardize(fc).std>> \o FilterHandlers(Tail(handlers))
            ELSE FilterHandlers(Tail(handlers))

\* filterHandlersInfo: the infos of the values that were kept, as written
RECURSIVE FilterHandlersInfo(_)
FilterHandlersInfo(handlers) ==
    IF handlers = <<>> THEN <<>>
    ELSE LET fc == Head(handlers)
         IN IF IsFuncErr(fc) \/ IsFuncSkipBefore(fc) \/ TryStandardize(fc).ok
            THEN <<HandlerInfo(fc)>> \o FilterHandlersInfo(Tail(handlers))
            ELSE FilterHandlersInfo(Tail(handlers))

\* Set up to the assignment node.methods[method] = &RouteHandler{...}: the
\* heap before node.syncCache(), and the node
SetRecord(h, r, prefix, method, handlers) ==
    LET fhs   == FilterHandlers(handlers)
        h1(g) == [g.nodes EXCEPT ![g.node].methods =
                     MapSet(@, method, RouteHandler(fhs, FilterHandlersInfo(handlers)))]
    IN Bind(get_subrouter(h, r, prefix), LAMBDA g : [nodes |-> h1(g), node |-> g.node])

\* (mutant) a Set that adds its handlers to the record the node has
SetRoute_Append(h, r, prefix, method, handlers) ==
    LET fhs   == FilterHandlers(handlers)
        old(g) == IF method \in DOMAIN g.nodes[g.node].methods
                  THEN g.nodes[g.node].methods[method]
                  ELSE RouteHandler(<<>>, <<>>)
        h1(g) == [g.nodes EXCEPT ![g.node].methods =
                     MapSet(@, method, RouteHandler(old(g).Handlers \o fhs,
                                old(g).HandlersInfo \o FilterHandlersInfo(handlers)))]
    IN Bind(get_subrouter(h, r, prefix),
            LAMBDA g : Bind(h1(g), LAMBDA hv : [nodes |-> syncCache(hv, g.node), node |-> g.node]))

\* func (r *route) Set(prefix string, method string, handlers ...any) Router:
\* the heap after the call, and the node returned
SetRoute(h, r, prefix, method, handlers) ==
    Bind(SetRecord(h, r, prefix, method, handlers),
         LAMBDA g : [nodes |-> syncCache(g.nodes, g.node), node |-> g.node])

\* strings.ToUpper on the method names used
ToUpper(m) == CASE m = "get" -> "GET" [] m = "post" -> "POST" [] m = "any" -> "ANY" [] OTHER -> m

allowedMethods ==
    {"GET", "HEAD", "POST", "PUT", "PATCH", "DELETE", "CONNECT", "OPTIONS", "TRACE",
     "PROPFIND", "ANY"}

\* func (r *route) addMiddleware(m any, method string, ..., before bool)
addMiddleware(h, r, originalM, method, before) ==
    LET m == IF IsFuncErr(originalM) \/ IsFuncSkipBefore(originalM) THEN originalM
             ELSE IF TryStandardize(originalM).ok THEN TryStandardize(originalM).std
             ELSE originalM
        info == HandlerInfo(originalM)
    IN IF method = ""
       THEN Bind(IF before
                 THEN [h EXCEPT ![r].funcBefore = Append(@, m),
                                ![r].funcBeforeInfo = Append(@, info)]
                 ELSE [h EXCEPT ![r].funcAfter = Append(@, m),
                                ![r].funcAfterInfo = Append(@, info)],
                 LAMBDA hv : syncCache(hv, r))
       ELSE LET old == IF method \in DOMAIN h[r].methods THEN h[r].methods[method]
                       ELSE RouteHandler(<<>>, <<>>)
                new == IF before
                       THEN RouteHandler(<<m>> \o old.Handlers, <<info>> \o old.HandlersInfo)
                       ELSE RouteHandler(Append(old.Handlers, m), Append(old.HandlersInfo, info))
            IN [h EXCEPT ![r].methods = MapSet(@, method, new)]

\* the loop of Use and After over the arguments: a method name (a.method, ""
\* when the call gives none) followed by the middleware a.ms
RECURSIVE addAll(_, _, _, _, _)
addAll(h, r, ms, method, before) ==
    IF ms = <<>> THEN h
    ELSE Bind(addMiddleware(h, r, Head(ms), method, before),
              LAMBDA hv : addAll(hv, r, Tail(ms), method, before))

MethodArg(m) == IF ToUpper(m) \in allowedMethods THEN ToUpper(m) ELSE ""

\* func (r *route) Use(middleware ...any) Router
Use(h, r, a) ==
    Bind(addAll(h, r, a.ms, MethodArg(a.method), TRUE), LAMBDA hv : syncCache(hv, r))

\* func (r *route) After(middleware ...any) Router
After(h, r, a) ==
    Bind(addAll(h, r, a.ms, MethodArg(a.method), FALSE), LAMBDA hv : syncCache(hv, r))

\* func (r *route) Clear(prefix string, method string)
ClearRecord(h, r, prefix, method) ==
    LET h1(g) == IF method = "*"
                 THEN [g.nodes EXCEPT ![g.node].methods = NoMap,
                                      ![g.node].funcBefore = <<>>,
                                      ![g.node].funcAfter = <<>>]
                 ELSE [g.nodes EXCEPT ![g.node].methods = MapDelete(@, method)]
    IN Bind(get_subrouter(h, r, prefix), LAMBDA g : [nodes |-> h1(g), node |-> g.node])

Clear(h, r, prefix, method) ==
    Bind(ClearRecord(h, r, prefix, method), LAMBDA g : syncCache(g.nodes, g.node))

\* func (r *route) SubRouter(prefix string) Router
SubRouter(h, r, prefix) == get_subrouter(h, r, prefix)

\* func (r *route) Replace(subr Router) Router, for r.parent != nil
Replace(h, r, sub) ==
    LET par == h[r].parent
        h1  == [h EXCEPT ![sub].fragment = h[r].fragment,
                         ![sub].parent = par,
                         ![sub].kind = h[r].kind,
                         ![sub].paramName = h[r].paramName,
                         ![sub].regex = h[r].regex]
        I   == {i \in 1..Len(h[par].children) : h[par].children[i] = r}
        h2  == IF I = {} THEN h1
               ELSE [h1 EXCEPT ![par].children[CHOOSE i \in I : \A j \in I : i <= j] = sub]
    IN Bind(h2, LAMBDA hv : syncCache(hv, sub))

\* func (r *route) Extend(prefix string, subr Router) Router
Extend(h, r, prefix, sub) ==
    Bind(get_subrouter(h, r, prefix), LAMBDA g : Replace(g.nodes, g.node, sub))

(***************************************************************************)
(* The matcher.  match returns the route, its chain and infos, and, as the *)
(* code changes x.PathParams in place, the path parameters after the call: *)
(* the slice with its backing array, in which the slots written for an     *)
(* abandoned branch stay as they are when the slice is cut back.           *)
(***************************************************************************)
Param(key, value) == [Key |-> key, Value |-> value]

\* a value of type PathParams: the backing array and the length of the slice
PathParams(arr, len) == [arr |-> arr, len |-> len]
\* the elements of the slice
Elems(pp) == SubSeq(pp.arr, 1, pp.len)

\* append(x.PathParams, v): into the next slot of the backing array, or, when
\* len = cap, into a new array of twice the capacity
AppendParam(pp, v) ==
    IF pp.len < Len(pp.arr)
    THEN PathParams([pp.arr EXCEPT ![pp.len + 1] = v], pp.len + 1)
    ELSE PathParams([i \in 1..(2 * Len(pp.arr)) |->
                        IF i <= pp.len THEN pp.arr[i]
                        ELSE IF i = pp.len + 1 THEN v ELSE ZeroParam], pp.len + 1)

RECURSIVE AppendParams(_, _)
AppendParams(pp, vs) ==
    IF vs = <<>> THEN pp ELSE AppendParams(AppendParam(pp, Head(vs)), Tail(vs))

NoMatch(pp) == [res |-> 0, h |-> <<>>, info |-> <<>>, pp |-> pp]

\* (mutant) backtracking that leaves the abandoned branch's parameters in place
Truncate_Keep(pp, stackLen) == pp

\* x.PathParams = x.PathParams[:stackLen]
Truncate(pp, stackLen) == PathParams(pp.arr, stackLen)

\* (mutant) a switch in which every child takes one segment, as a wildcard does
TryChild_Segment(child, path, start, end, pp) ==
    [matched |-> TRUE, nextStart |-> end + 1,
     pp |-> IF child.paramName # <<>>
            THEN AppendParam(pp, Param(child.paramName, Slice(path, start, end))) ELSE pp]

\* the switch child.kind of match: whether the child matches the segment
\* path[start:end], where matching goes on, and the parameters recorded
TryChild(child, path, start, end, pp) ==
    LET seg  == Slice(path, start, end)
        subs == IF child.regex = <<>> THEN <<>> ELSE FindSubmatch(child.regex[1], seg, 0)
        named(v) == IF child.paramName # <<>>
                    THEN AppendParam(pp, Param(child.paramName, v)) ELSE pp
    IN CASE child.kind = "nodeStatic" ->
                [matched |-> child.fragment = seg, nextStart |-> end + 1, pp |-> pp]
         [] child.kind = "nodeParam" ->
                [matched |-> TRUE, nextStart |-> end + 1, pp |-> named(seg)]
         [] child.kind = "nodeWildcard" ->
                [matched |-> TRUE, nextStart |-> end + 1, pp |-> named(seg)]
         [] child.kind = "nodeCatchAll" ->
                [matched |-> TRUE, nextStart |-> Len(path),
                 pp |-> named(Slice(path, start, Len(path)))]
         [] child.kind = "nodeRegex" ->
                [matched |-> subs # <<>>, nextStart |-> end + 1,
                 pp |-> IF subs # <<>> THEN AppendParams(pp, subs[1]) ELSE pp]

\* (mutant) no backtracking: the first child that matches the segment decides
OrNextSibling_First(m, siblings) == m

\* (mutant) a later sibling that reaches a terminal is preferred
OrNextSibling_Last(m, siblings) == IF siblings.res # 0 THEN siblings ELSE m

\* if res != nil { return res, h, info }; otherwise the loop goes on with the
\* next sibling
OrNextSibling(m, siblings) == IF m.res # 0 THEN m ELSE siblings

\* (mutant) no catch-all child is tried for the empty remainder
matchEmpty_None(h, r, i, path, start, method, pp) == NoMatch(pp)

\* func (r *route) match(path string, start int, method string, x *X)
RECURSIVE match(_, _, _, _, _, _)
RECURSIVE matchEmpty(_, _, _, _, _, _, _)
RECURSIVE matchChildren(_, _, _, _, _, _, _, _)
match(h, r, path, start, method, pp) ==
    IF start >= Len(path)
    THEN IF method \in DOMAIN h[r].methods
         THEN [res |-> r, h |-> MapGet(h[r].handlersCache, method),
               info |-> MapGet(h[r].handlersInfoCache, method), pp |-> pp]
         ELSE IF "ANY" \in DOMAIN h[r].methods
         THEN [res |-> r, h |-> MapGet(h[r].handlersCache, "ANY"),
               info |-> MapGet(h[r].handlersInfoCache, "ANY"), pp |-> pp]
         ELSE matchEmpty(h, r, 1, path, start, method, pp)
    ELSE LET rel == IndexByte(Slice(path, start, Len(path)), "/")
             end == IF rel = -1 THEN Len(path) ELSE rel + start
         IN matchChildren(h, r, 1, path, start, end, method, pp)

\* the loop of the base case: a catch-all child may accept the empty remainder
matchEmpty(h, r, i, path, start, method, pp) ==
    IF i > Len(h[r].children) THEN NoMatch(pp)
    ELSE LET child == h[r].children[i]
         IN IF h[child].kind = "nodeCatchAll"
            THEN LET stackLen == pp.len
                     pp1 == IF h[child].paramName # <<>>
                            THEN AppendParam(pp, Param(h[child].paramName, <<>>)) ELSE pp
                     m   == match(h, child, path, start, method, pp1)
                 IN IF m.res # 0 THEN m
                    ELSE matchEmpty(h, r, i + 1, path, start, method, Truncate(m.pp, stackLen))
            ELSE matchEmpty(h, r, i + 1, path, start, method, pp)

\* the loop over r.children for the segment path[start:end]
matchChildren(h, r, i, path, start, end, method, pp) ==
    IF i > Len(h[r].children) THEN NoMatch(pp)
    ELSE LET child    == h[r].children[i]
             stackLen == pp.len
             t        == TryChild(h[child], path, start, end, pp)
         IN IF t.matched
            THEN LET nextStart == IF t.nextStart > Len(path) THEN Len(path) ELSE t.nextStart
                     m == match(h, child, path, nextStart, method, t.pp)
                 IN OrNextSibling(m, matchChildren(h, r, i + 1, path, start, end, method,
                                                   Truncate(m.pp, stackLen)))
            ELSE matchChildren(h, r, i + 1, path, start, end, method, t.pp)

\* the last index of a FuncSkipBefore in fcs, -1 if none
SkipIdx(fcs) ==
    LET S == {i \in 0..(Len(fcs) - 1) : IsFuncSkipBefore(fcs[i + 1])}
    IN IF S = {} THEN -1 ELSE CHOOSE i \in S : \A j \in S : j <= i

\* (mutant) the chain is not sliced
SliceAfterSkip_Whole(fcs, skipIdx) == fcs

\* fcs = fcs[skipIdx+1:]
SliceAfterSkip(fcs, skipIdx) ==
    IF skipIdx >= 0 THEN Slice(fcs, skipIdx + 1, Len(fcs)) ELSE fcs

\* func (r *route) ServeHTTP(w http.ResponseWriter, req *http.Request), up to
\* the call x.Next() or to WriteHeader(404); the context comes from the pool
ServeHTTP(r, path, method) ==
    /\ pc # "serving"
    /\ LET c0 == [x EXCEPT !.Request = <<[Path |-> path, Method |-> method]>>,
                           !.writer = <<"w">>]
       IN \E m \in {match(nodes, r, TrimSlashes(path), 0, method,
                           PathParams(c0.ppArray, Len(c0.PathParams)))} :
              LET c1 == [c0 EXCEPT !.PathParams = Elems(m.pp), !.ppArray = m.pp.arr]
                  skipIdx == SkipIdx(m.h)
              IN /\ subR' = m.res
                 /\ IF m.res # 0 /\ Len(m.h) > 0
                    THEN /\ x' = [c1 EXCEPT !.fcs = SliceAfterSkip(m.h, skipIdx),
                                            !.fcsInfo = SliceAfterSkip(m.info, skipIdx)]
                         /\ stack' = <<Frame("Next", "loop", 0, "")>>
                         /\ status' = 0
                    ELSE /\ x' = c1
                         /\ stack' = <<>>
                         /\ status' = 404
    /\ trace' = <<>>
    /\ pc' = "serving"
    /\ UNCHANGED <<nodes, regs, em, gos, hist>>

(***************************************************************************)
(* The pipeline specification: one request whose chain is any sequence of  *)
(* at most MaxChain handlers, or the chain of TestPipeline_ExecutionOrder, *)
(* from the call x.Next() of ServeHTTP to the release of the context.      *)
(***************************************************************************)
PipeHandlers ==
    {FuncX2AnyErr(0, a, e) : a \in {NoAct, ActNext, ActStop, ActSkip}, e \in {"", "E1"}}
    \cup {FuncErr(0, a, e) : a \in {NoAct, ActNext}, e \in {"", "E2"}}

\* TestPipeline_ExecutionOrder: [Parent Before, Child Before, Handler,
\* Child After, Parent After]; the two Before middleware call x.Next().
OnionChain ==
    << FuncX2AnyErr(0, ActNext, ""), FuncX2AnyErr(0, ActNext, ""),
       FuncX2AnyErr(0, NoAct, ""), FuncX2AnyErr(0, NoAct, ""), FuncX2AnyErr(0, NoAct, "") >>

Chains == UNION {[1..n -> PipeHandlers] : n \in 1..MaxChain} \cup {OnionChain}

InitPipe ==
    /\ nodes = <<>>
    /\ \E chain \in Chains :
           x = [NewX EXCEPT !.writer = <<"w">>, !.Request = <<"req">>, !.fcs = chain]
    /\ status = 0
    /\ subR = 0
    /\ stack = <<Frame("Next", "loop", 0, "")>>
    /\ trace = <<>>
    /\ pc = "serving"
    /\ regs = <<>>
    /\ NoEventManager

(***************************************************************************)
(* The cursor specification: chains of at most CursorChain handlers that   *)
(* call Next, Stop, Skip() or Skip(u) for a small u or for the largest     *)
(* uint.  A handler may be entered again and again; the trace, and with it *)
(* the run, is cut at MaxTrace events.                                     *)
(***************************************************************************)
CursorChain == 3
MaxTrace == 10

CursorHandlers ==
    {FuncX2AnyErr(0, a, e) :
         a \in {NoAct, ActNext, ActStop, ActSkip, ActSkipN(Uint(0)), ActSkipN(Uint(2)),
                ActSkipN(MaxUintMinus(0))},
         e \in {"", "E1"}}
    \cup {FuncErr(0, NoAct, e) : e \in {"", "E2"}}

InitCursor ==
    /\ nodes = <<>>
    /\ \E chain \in UNION {[1..n -> CursorHandlers] : n \in 1..CursorChain} :
           x = [NewX EXCEPT !.writer = <<"w">>, !.Request = <<"req">>, !.fcs = chain]
    /\ status = 0
    /\ subR = 0
    /\ stack = <<Frame("Next", "loop", 0, "")>>
    /\ trace = <<>>
    /\ pc = "serving"
    /\ regs = <<>>
    /\ NoEventManager

NextCursor ==
    \/ Len(trace) < MaxTrace /\ X_Next
    \/ HandlerBody
    \/ HandlerReturn
    \/ Len(trace) < MaxTrace /\ X_handleErr
    \/ Release

SpecCursor == InitCursor /\ [][NextCursor]_vars

NextPipe == X_Next \/ HandlerBody \/ HandlerReturn \/ X_handleErr \/ Release

SpecPipe == InitPipe /\ [][NextPipe]_vars

(***************************************************************************)
(* The pipe value specification: one request whose chain is any sequence   *)
(* of at most MaxChain handlers that return a value ("A" or "B"), return   *)
(* nil, assign x.PipeValue (USAGE.md, handlerA), call Next, return an      *)
(* error, or handle one.                                                   *)
(***************************************************************************)
ValueHandlers ==
    {Returns(0, NoAct, "A"), Returns(0, NoAct, "B"), Returns(0, ActSkip, "A"),
     FuncX2AnyErr(0, NoAct, ""), FuncX2AnyErr(0, ActSetPipe, ""),
     FuncX2AnyErr(0, ActNext, ""), FuncX2AnyErr(0, NoAct, "E1"), FuncErr(0, NoAct, "")}

InitValue ==
    /\ nodes = <<>>
    /\ \E chain \in UNION {[1..n -> ValueHandlers] : n \in 1..MaxChain} :
           x = [NewX EXCEPT !.writer = <<"w">>, !.Request = <<"req">>, !.fcs = chain]
    /\ status = 0
    /\ subR = 0
    /\ stack = <<Frame("Next", "loop", 0, "")>>
    /\ trace = <<>>
    /\ pc = "serving"
    /\ regs = <<>>
    /\ NoEventManager

SpecValue == InitValue /\ [][NextPipe]_vars

(***************************************************************************)
(* The binder specification: one request whose chain is any sequence of at *)
(* most MaxChain entries among adapted functions with a struct pointer as  *)
(* second parameter, for which x.Parse fails or succeeds on the request,   *)
(* plain handlers and error handlers.                                      *)
(***************************************************************************)
BindHandlers ==
    {Adapted(0, NoAct, <<>>, e, b) : e \in {"", "E1"}, b \in {"", "EB"}}
    \cup {FuncX2AnyErr(0, a, "") : a \in {NoAct, ActNext}}
    \cup {FuncErr(0, NoAct, e) : e \in {"", "E2"}}

InitBind ==
    /\ nodes = <<>>
    /\ \E chain \in UNION {[1..n -> BindHandlers] : n \in 1..MaxChain} :
           x = [NewX EXCEPT !.writer = <<"w">>, !.Request = <<"req">>, !.fcs = chain]
    /\ status = 0
    /\ subR = 0
    /\ stack = <<Frame("Next", "loop", 0, "")>>
    /\ trace = <<>>
    /\ pc = "serving"
    /\ regs = <<>>
    /\ NoEventManager

SpecBind == InitBind /\ [][NextPipe]_vars

(***************************************************************************)
(* The matcher specification: up to MaxRegs registrations on the root      *)
(* router, drawn from a list of routes that holds every kind of segment    *)
(* and the shapes of the router tests (static against param, wildcard and  *)
(* catch-all; two param siblings with different continuations), and        *)
(* GET requests for /, for /b and for every path of up to MaxSegs segments *)
(* under /a, and POST /a.  The handler of the i-th route is a plain        *)
(* handler with id i.                                                      *)
(***************************************************************************)
RECURSIVE Join(_)
Join(segs) == IF segs = <<>> THEN <<>> ELSE <<"/">> \o Head(segs) \o Join(Tail(segs))

sA == <<"a">>
sB == <<"b">>
sP == <<"{", "p", "}">>
sQ == <<"{", "q", "}">>
sStar == <<"*">>
sStarStar == <<"*", "*">>
sF == <<"{", "f", ":", "*", "}">>

Route(segs, method) == [path |-> Join(segs), method |-> method]

pA == Join(<<sA>>)

Routes ==
    << Route(<<sA, sB>>, "GET"),            \* 1  /a/b      (TestRouterPriority: /p/specific)
       Route(<<sA, sP>>, "GET"),            \* 2  /a/{p}    (TestRouterPriority2: /q/{param};
                                            \*               TestRouter_Conflict: /users/{id})
       Route(<<sA, sStar>>, "GET"),         \* 3  /a/*      (TestRouterWildcardPriority: /w/*)
       Route(<<sA, sStarStar>>, "GET"),     \* 4  /a/**
       Route(<<sA, sP, sA>>, "GET"),        \* 5  /a/{p}/a  (TestNewRouterDesign: /a/b/{param1}/d)
       Route(<<sA, sQ, sB>>, "GET"),        \* 6  /a/{q}/b  (TestNewRouterDesign: /a/b/{param2}/c)
       Route(<<sA, sF>>, "ANY"),            \* 7  /a/{f:*}  (TestRouter_ParamCleanup: /users/{any:*})
       Route(<<sA>>, "POST"),               \* 8  /a
       Route(<<sA, sQ>>, "GET") >>          \* 9  /a/{q}    (TestRouter_Conflict: /users/{name})

RouteHandlerOf(i) == FuncX2AnyErr(i, NoAct, "")

ReqSegs == {sA, sB}
ReqPaths ==
    {<<"/">>, Join(<<sB>>)}
    \cup {Join(<<sA>> \o segs) : segs \in UNION {[1..n -> ReqSegs] : n \in 0..(MaxSegs - 1)}}
Requests ==
    {[path |-> path, method |-> "GET"] : path \in ReqPaths}
    \cup {[path |-> Join(<<sA>>), method |-> "POST"]}

InitRouter ==
    /\ nodes = <<NewRouter>>
    /\ x = NewX
    /\ status = 0
    /\ subR = 0
    /\ stack = <<>>
    /\ trace = <<>>
    /\ pc = "setup"
    /\ regs = <<>>
    /\ NoEventManager

\* r.Set(path, method, handler) on the root router, for a route of the list
\* that was not registered yet; the routes are registered before the first
\* request is served
Set(i) ==
    /\ pc = "setup"
    /\ Len(regs) < MaxRegs
    /\ \A a \in 1..Len(regs) : regs[a] # i
    /\ nodes' = SetRoute(nodes, 1, Routes[i].path, Routes[i].method, <<RouteHandlerOf(i)>>).nodes
    /\ regs' = Append(regs, i)
    /\ UNCHANGED <<x, status, subR, stack, trace, pc, em, gos, hist>>

NextMatch ==
    \/ \E i \in 1..Len(Routes) : Set(i)
    \/ \E req \in Requests : ServeHTTP(1, req.path, req.method)
    \/ X_Next
    \/ HandlerBody
    \/ HandlerReturn
    \/ Release

SpecMatch == InitRouter /\ [][NextMatch]_vars

(***************************************************************************)
(* Properties of the pipeline.                                             *)
(***************************************************************************)
Ev(ev, idx) == <<ev, idx>>

\* The side effects of the handlers of chain fcs in trace tr: every handler
\* has one on entry, and a handler that calls Next has a second one after
\* Next has returned.
RECURSIVE SideEffects(_, _)
SideEffects(tr, fcs) ==
    IF tr = <<>> THEN <<>>
    ELSE LET e == Head(tr)
             rest == SideEffects(Tail(tr), fcs)
         IN IF e.ev = "enter" \/ (e.ev = "exit" /\ fcs[e.idx + 1].act.op = "Next")
            THEN <<Ev(e.ev, e.idx)>> \o rest
            ELSE rest

Finished == pc = "serving" /\ stack = <<>>

\* C1 (onion order): when the request with the chain [B1, B2, H, A1, A2] of
\* TestPipeline_ExecutionOrder has run, in which B1 and B2 call Next between
\* two side effects and H, A1, A2 do not, the side effects occurred exactly in
\* the order B1-pre, B2-pre, H, A1, A2, B2-post, B1-post, each once.
C1_OnionOrder ==
    (Finished /\ x.fcs = OnionChain) =>
        SideEffects(trace, x.fcs) =
            << Ev("enter", 0), Ev("enter", 1), Ev("enter", 2), Ev("enter", 3),
               Ev("enter", 4), Ev("exit", 1), Ev("exit", 0) >>

C1_Witness == Finished /\ x.fcs = OnionChain /\ Len(trace) >= 7

\* the indices, from cursor c on, of the error handlers of chain fcs
ErrHandlersFrom(fcs, c) == {j \in c..(Len(fcs) - 1) : fcs[j + 1].type = "FuncErr"}
Min(S) == CHOOSE m \in S : \A n \in S : m <= n

\* a handler returned a non-nil error to X.Next
Raised(e) == e.ev = "exit" /\ e.err # ""

\* C4 (error routing): when a handler returns a non-nil error, the next thing
\* the pipeline does with a chain entry is to call the first error handler at
\* or after the cursor, with that error: no normal handler between the cursor
\* and that error handler is started, and the call is made before the request
\* ends.
C4_ErrorRouting ==
    pc = "serving" =>
        \A p \in 1..Len(trace) :
            (Raised(trace[p]) /\ ErrHandlersFrom(x.fcs, trace[p].fid) # {}) =>
                IF p < Len(trace)
                THEN /\ trace[p + 1].ev = "errenter"
                     /\ trace[p + 1].idx = Min(ErrHandlersFrom(x.fcs, trace[p].fid))
                     /\ trace[p + 1].err = trace[p].err
                ELSE stack # <<>>

\* an error is routed past a normal handler to the error handler behind it
C4_Witness ==
    /\ pc = "serving"
    /\ \E p \in 1..(Len(trace) - 1) :
           /\ Raised(trace[p])
           /\ trace[p + 1].ev = "errenter"
           /\ trace[p + 1].idx > trace[p].fid
           /\ x.fcs[trace[p].fid + 1].type = "FuncX2AnyErr"

\* C5: once an error handler has returned nil, no normal handler is started
\* for the request any more.
C5_NoNormalAfterHandled ==
    \A p \in 1..Len(trace) : \A q \in (p + 1)..Len(trace) :
        (trace[p].ev = "errexit" /\ trace[p].err = "") => trace[q].ev # "enter"

\* C6 (Stop): after a handler has called Stop(), no chain entry is started for
\* the request any more, neither as a normal handler nor as an error handler.
C6_StopStartsNothing ==
    \A p \in 1..Len(trace) : \A q \in (p + 1)..Len(trace) :
        trace[p].ev = "Stop" => trace[q].ev \notin {"enter", "errenter"}

\* Stop() was called inside a nested Next() with entries left in the chain;
\* the suspended handler ran its remaining code and the request ended.
C6_Witness ==
    /\ Finished
    /\ \E p \in 1..Len(trace) : \E q \in (p + 1)..Len(trace) :
           /\ trace[p].ev = "Stop"
           /\ trace[p].idx + 1 < Len(x.fcs)
           /\ trace[q].ev = "exit" /\ trace[q].idx < trace[p].idx

(***************************************************************************)
(* The router specification: up to MaxRegs calls of Use, After, Set,       *)
(* Clear, SubRouter, NewRouter and Extend on the nodes of at most MaxNodes *)
(* routes, as in TestRouter_Middleware and TestPipeline_SkipBefore, and    *)
(* GET requests to the first router.  A call is made on a node of a tree   *)
(* (the value Set or SubRouter returned, or a router of NewRouter).  The   *)
(* middleware and the handlers carry the node they are registered on in    *)
(* their id.  regs counts the calls, with 0 for a call outside Routes.     *)
(***************************************************************************)
MaxNodes == 3

BeforeOf(n)  == FuncX2AnyErr(10 + n, NoAct, "")
AfterOf(n)   == FuncX2AnyErr(20 + n, NoAct, "")
HandlerOf(n) == FuncX2AnyErr(30 + n, NoAct, "")

UseArgs(n)   == {[method |-> "", ms |-> <<BeforeOf(n)>>],
                 [method |-> "get", ms |-> <<BeforeOf(n)>>],
                 [method |-> "", ms |-> <<SkipBefore>>]}
AfterArgs(n) == {[method |-> "", ms |-> <<AfterOf(n)>>],
                 [method |-> "get", ms |-> <<AfterOf(n)>>]}
SetArgs(n)   == {<<HandlerOf(n)>>, <<SkipBefore, HandlerOf(n)>>}
Prefixes     == {<<>>, Join(<<sA>>)}
CachePaths   == {<<"/">>, Join(<<sA>>), Join(<<sA, sA>>)}

\* the node is a router, or a child of a node of a tree
RECURSIVE InTree(_, _)
InTree(h, n) ==
    IF h[n].parent = 0 THEN TRUE
    ELSE /\ \E i \in 1..Len(h[h[n].parent].children) : h[h[n].parent].children[i] = n
         /\ InTree(h, h[n].parent)

RECURSIVE RootOf(_, _)
RootOf(h, n) == IF h[n].parent = 0 THEN n ELSE RootOf(h, h[n].parent)

Call(h) ==
    /\ pc # "serving"
    /\ Len(regs) < MaxRegs
    /\ \E hv \in {h} : Len(hv) <= MaxNodes /\ nodes' = hv
    /\ regs' = Append(regs, 0)
    /\ UNCHANGED <<x, status, subR, stack, trace, pc, em, gos, hist>>

CallUse(r, a) == InTree(nodes, r) /\ Call(Use(nodes, r, a))

CallAfter(r, a) == InTree(nodes, r) /\ Call(After(nodes, r, a))

CallSet(r, prefix, handlers) ==
    InTree(nodes, r) /\ Call(SetRoute(nodes, r, prefix, "GET", handlers).nodes)

CallClear(r, prefix, method) == InTree(nodes, r) /\ Call(Clear(nodes, r, prefix, method))

CallSubRouter(r, prefix) ==
    /\ InTree(nodes, r)
    /\ prefix # <<>>
    /\ Call(SubRouter(nodes, r, prefix).nodes)
    /\ Len(nodes') > Len(nodes)

CallNewRouter == Call(Append(nodes, NewRouter))

\* sub is a router that is not part of another tree yet, and not the router
\* of r's own tree
CallExtend(r, prefix, sub) ==
    /\ InTree(nodes, r)
    /\ prefix # <<>>
    /\ nodes[sub].parent = 0
    /\ sub # 1
    /\ RootOf(nodes, r) # sub
    /\ Call(Extend(nodes, r, prefix, sub))

NextCache ==
    \/ \E r \in 1..Len(nodes) : \E a \in UseArgs(r) : CallUse(r, a)
    \/ \E r \in 1..Len(nodes) : \E a \in AfterArgs(r) : CallAfter(r, a)
    \/ \E r \in 1..Len(nodes) : \E prefix \in Prefixes : \E hs \in SetArgs(r) :
           CallSet(r, prefix, hs)
    \/ \E r \in 1..Len(nodes) : \E prefix \in Prefixes : \E method \in {"*", "GET"} :
           CallClear(r, prefix, method)
    \/ \E r \in 1..Len(nodes) : \E prefix \in Prefixes : CallSubRouter(r, prefix)
    \/ CallNewRouter
    \/ \E r, sub \in 1..Len(nodes) : \E prefix \in Prefixes : CallExtend(r, prefix, sub)
    \/ \E path \in CachePaths : ServeHTTP(1, path, "GET")
    \/ X_Next
    \/ HandlerBody
    \/ HandlerReturn
    \/ Release

SpecCache == InitRouter /\ [][NextCache]_vars

(***************************************************************************)
(* The method specification: up to MaxRegs calls of Set, Clear, Use and    *)
(* After on the root router, at any time between two requests, for routes  *)
(* on one node with records for GET, for ANY and for both, a POST route    *)
(* and an ANY catch-all below it, as in TestRouter_Methods and             *)
(* TestRouter_Clear; and GET and PUT requests.  A route may be registered  *)
(* again: the handler of the k-th call carries k in its id.  regs holds i  *)
(* for Set of route i, -i for Clear of route i, 0 for Use and After.       *)
(***************************************************************************)
MethodRoutes ==
    << Route(<<sA>>, "GET"),                \* 1  /a        (TestRouter_Clear: /remove)
       Route(<<sA>>, "ANY"),                \* 2  /a        (TestRouter_Methods: /any)
       Route(<<sA, sB>>, "POST"),           \* 3  /a/b      (TestRouter_Methods: /post)
       Route(<<sA, sF>>, "ANY") >>          \* 4  /a/{f:*}

MethodHandlerOf(i, k) == FuncX2AnyErr(100 + 10 * i + k, NoAct, "")

MethodRequests ==
    {[path |-> Join(segs), method |-> m] : segs \in {<<sA>>, <<sA, sB>>, <<sB>>},
                                           m \in {"GET", "PUT"}}

\* r.Set(path, method, handler) on the root router
SetMethod(i) ==
    /\ pc # "serving"
    /\ Len(regs) < MaxRegs
    /\ nodes' = SetRoute(nodes, 1, MethodRoutes[i].path, MethodRoutes[i].method,
                         <<MethodHandlerOf(i, Len(regs) + 1)>>).nodes
    /\ regs' = Append(regs, i)
    /\ UNCHANGED <<x, status, subR, stack, trace, pc, em, gos, hist>>

\* r.Clear(path, method) on the root router
ClearMethod(i) ==
    /\ pc # "serving"
    /\ Len(regs) < MaxRegs
    /\ nodes' = Clear(nodes, 1, MethodRoutes[i].path, MethodRoutes[i].method)
    /\ regs' = Append(regs, 0 - i)
    /\ UNCHANGED <<x, status, subR, stack, trace, pc, em, gos, hist>>

\* r.Use(mw) and r.After(mw) on the root router
UseMethod ==
    /\ pc # "serving"
    /\ Len(regs) < MaxRegs
    /\ nodes' = Use(nodes, 1, [method |-> "", ms |-> <<BeforeOf(1)>>])
    /\ regs' = Append(regs, 0)
    /\ UNCHANGED <<x, status, subR, stack, trace, pc, em, gos, hist>>

AfterMethod ==
    /\ pc # "serving"
    /\ Len(regs) < MaxRegs
    /\ nodes' = After(nodes, 1, [method |-> "", ms |-> <<AfterOf(1)>>])
    /\ regs' = Append(regs, 0)
    /\ UNCHANGED <<x, status, subR, stack, trace, pc, em, gos, hist>>

NextMethod ==
    \/ \E i \in 1..Len(MethodRoutes) : SetMethod(i)
    \/ \E i \in 1..Len(MethodRoutes) : ClearMethod(i)
    \/ UseMethod
    \/ AfterMethod
    \/ \E req \in MethodRequests : ServeHTTP(1, req.path, req.method)
    \/ X_Next
    \/ HandlerBody
    \/ HandlerReturn
    \/ Release

SpecMethod == InitRouter /\ [][NextMethod]_vars

(***************************************************************************)
(* The registration specification: up to MaxRegs calls of Get, Use and     *)
(* After on the root router with one value each: a handler, an error       *)
(* handler, a func without the context as first parameter, a func with the *)
(* context and an int, and an int; and GET requests for the route.  regs   *)
(* holds the ids of the values.  Set ends the process when it meets a      *)
(* value it does not support (pc = "fatal").                               *)
(***************************************************************************)
RegValues ==
    << FuncX2AnyErr(1, NoAct, ""),
       FuncErr(2, NoAct, ""),
       Value("func(int)", 3, FuncType(<<"int">>, <<>>)),
       Value("func(*vigo.X, int)", 4, FuncType(<<"*X", "int">>, <<>>)),
       Value("int", 5, OtherType("Int", "")) >>

\* r.Get("/a", v)
RegSet(i) ==
    /\ pc \in {"setup", "idle"}
    /\ Len(regs) < MaxRegs
    /\ IF SetFatal(<<RegValues[i]>>)
       THEN /\ nodes' = get_subrouter(nodes, 1, pA).nodes
            /\ pc' = "fatal"
       ELSE /\ nodes' = SetRoute(nodes, 1, pA, "GET", <<RegValues[i]>>).nodes
            /\ pc' = pc
    /\ regs' = Append(regs, i)
    /\ UNCHANGED <<x, status, subR, stack, trace, em, gos, hist>>

\* r.Use(v)
RegUse(i) ==
    /\ pc \in {"setup", "idle"}
    /\ Len(regs) < MaxRegs
    /\ nodes' = Use(nodes, 1, [method |-> "", ms |-> <<RegValues[i]>>])
    /\ regs' = Append(regs, i)
    /\ UNCHANGED <<x, status, subR, stack, trace, pc, em, gos, hist>>

\* r.After(v)
RegAfter(i) ==
    /\ pc \in {"setup", "idle"}
    /\ Len(regs) < MaxRegs
    /\ nodes' = After(nodes, 1, [method |-> "", ms |-> <<RegValues[i]>>])
    /\ regs' = Append(regs, i)
    /\ UNCHANGED <<x, status, subR, stack, trace, pc, em, gos, hist>>

RegServe == pc \in {"setup", "idle"} /\ ServeHTTP(1, pA, "GET")

NextRegister ==
    \/ \E i \in 1..Len(RegValues) : RegUse(i)
    \/ \E i \in 1..Len(RegValues) : RegAfter(i)
    \/ \E i \in 1..Len(RegValues) : RegSet(i)
    \/ RegServe
    \/ X_Next
    \/ HandlerBody
    \/ HandlerReturn
    \/ Release

SpecRegister == InitRouter /\ [][NextRegister]_vars

(***************************************************************************)
(* The binder.  x.Parse is called on a request that, for each of the keys  *)
(* of ComplexReq (TestParseEmptyVsMissing), has no value, the empty string *)
(* or a non-empty string in the source of the key.  A source is a map from *)
(* keys to the value, <<>> for a key without one; the path source is       *)
(* x.PathParams.  The result of the call is kept in trace.  A nil pointer  *)
(* is <<>>, a pointer to v is <<v>>.                                       *)
(***************************************************************************)
Field(name, src, key, ptr) == [name |-> name, src |-> src, key |-> key, ptr |-> ptr]

\* type ComplexReq struct { QReq string `src:"query"`; QOpt *string ... }; the
\* key of a field is its name in snake case
ComplexReq ==
    << Field("QReq", "query",  <<"q", "_", "r", "e", "q">>, FALSE),
       Field("QOpt", "query",  <<"q", "_", "o", "p", "t">>, TRUE),
       Field("HReq", "header", <<"h", "_", "r", "e", "q">>, FALSE),
       Field("HOpt", "header", <<"h", "_", "o", "p", "t">>, TRUE),
       Field("FReq", "form",   <<"f", "_", "r", "e", "q">>, FALSE),
       Field("FOpt", "form",   <<"f", "_", "o", "p", "t">>, TRUE),
       Field("PReq", "path",   <<"p", "_", "r", "e", "q">>, FALSE),
       Field("POpt", "path",   <<"p", "_", "o", "p", "t">>, TRUE) >>

FieldsOf(src) == {i \in 1..Len(ComplexReq) : ComplexReq[i].src = src}
KeysOf(src) == {ComplexReq[i].key : i \in FieldsOf(src)}

\* no value, the empty string, a non-empty string
SourceValues == {<<>>, << <<>> >>, << <<"v">> >>}

\* (mutant) a lookup that takes an entry with an empty value for no entry
PathParams_Try_NonEmpty(p, key) ==
    LET I == {i \in 1..Len(p) : p[i].Key = key /\ p[i].Value # <<>>}
    IN IF I = {} THEN [v |-> <<>>, ok |-> FALSE]
       ELSE [v |-> p[CHOOSE i \in I : \A j \in I : i <= j].Value, ok |-> TRUE]

\* func (p PathParams) Try(key string) (string, bool)
PathParams_Try(p, key) ==
    LET I == {i \in 1..Len(p) : p[i].Key = key}
    IN IF I = {} THEN [v |-> <<>>, ok |-> FALSE]
       ELSE [v |-> p[CHOOSE i \in I : \A j \in I : i <= j].Value, ok |-> TRUE]

\* the value the source of field f has for its key: <<>> if none, else <<v>>
LookupField(c, f) ==
    IF f.src = "path"
    THEN LET r == PathParams_Try(c.PathParams, f.key) IN IF r.ok THEN <<r.v>> ELSE <<>>
    ELSE c.Request[1][f.src][f.key]

MissingArg(key) == <<[msg |-> "missing arg", args |-> key]>>

\* the fields in declaration order: a non-pointer field without a value
\* fails, a pointer field without one stays nil, a field with a value is set
RECURSIVE ParseFields(_, _, _)
ParseFields(c, fields, target) ==
    IF fields = <<>> THEN [target |-> target, err |-> <<>>]
    ELSE LET f == Head(fields)
             v == LookupField(c, f)
         IN IF v = <<>>
            THEN IF f.ptr THEN ParseFields(c, Tail(fields), target)
                 ELSE [target |-> target, err |-> MissingArg(f.key)]
            ELSE ParseFields(c, Tail(fields),
                             [target EXCEPT ![f.name] = IF f.ptr THEN v ELSE v[1]])

\* var target ComplexReq: every string is "", every pointer nil
ZeroTarget == [n \in {ComplexReq[i].name : i \in 1..Len(ComplexReq)} |-> <<>>]

\* err := x.Parse(&target)
X_Parse ==
    /\ pc = "serving"
    /\ trace = <<>>
    /\ trace' = <<ParseFields(x, ComplexReq, ZeroTarget)>>
    /\ UNCHANGED <<nodes, x, status, subR, stack, pc, regs, em, gos, hist>>

\* the parameters of the path source, in the order of the fields
RECURSIVE ParamsOf(_, _)
ParamsOf(vals, fields) ==
    IF fields = <<>> THEN <<>>
    ELSE LET f == Head(fields)
         IN (IF f.src = "path" /\ vals[f.key] # <<>> THEN <<Param(f.key, vals[f.key][1])>> ELSE <<>>)
            \o ParamsOf(vals, Tail(fields))

InitParse ==
    /\ nodes = <<>>
    /\ \E q \in [KeysOf("query") -> SourceValues], h \in [KeysOf("header") -> SourceValues],
          f \in [KeysOf("form") -> SourceValues], pv \in [KeysOf("path") -> SourceValues] :
           x = [NewX EXCEPT !.writer = <<"w">>,
                            !.Request = <<[query |-> q, header |-> h, form |-> f]>>,
                            !.PathParams = ParamsOf(pv, ComplexReq),
                            !.ppArray = ParamsOf(pv, ComplexReq)]
    /\ status = 0
    /\ subR = 0
    /\ stack = <<>>
    /\ trace = <<>>
    /\ pc = "serving"
    /\ regs = <<>>
    /\ NoEventManager

(***************************************************************************)
(* SkipBefore registered in any place: through Use, through After, and     *)
(* before, after or between the handlers of a route.                       *)
(***************************************************************************)
SkipUseArgs(n)   == {[method |-> "", ms |-> <<BeforeOf(n)>>],
                     [method |-> "", ms |-> <<SkipBefore>>]}
SkipAfterArgs(n) == {[method |-> "", ms |-> <<AfterOf(n)>>],
                     [method |-> "", ms |-> <<SkipBefore>>]}
SkipSetArgs(n)   == {<<HandlerOf(n)>>,
                     <<SkipBefore, HandlerOf(n)>>,
                     <<HandlerOf(n), SkipBefore>>,
                     <<HandlerOf(n), SkipBefore, HandlerOf(n + 1)>>}

NextSkip ==
    \/ \E r \in 1..Len(nodes) : \E a \in SkipUseArgs(r) : CallUse(r, a)
    \/ \E r \in 1..Len(nodes) : \E a \in SkipAfterArgs(r) : CallAfter(r, a)
    \/ \E r \in 1..Len(nodes) : \E prefix \in Prefixes : \E hs \in SkipSetArgs(r) :
           CallSet(r, prefix, hs)
    \/ \E path \in CachePaths : ServeHTTP(1, path, "GET")
    \/ X_Next
    \/ HandlerBody
    \/ HandlerReturn
    \/ Release

SpecSkip == InitRouter /\ [][NextSkip]_vars

(***************************************************************************)
(* Distributed tasks.  Two EventManagers with the same Redis client have   *)
(* the task "shared_task" registered with Distributed(ttl).  em is the     *)
(* Redis server (the time the lock key has left, 0 when there is no key)   *)
(* with the ttl of the option; gos holds, per manager, whether it is       *)
(* inside the task function and for how long; hist counts the calls of     *)
(* executeTask that ran the function and those that skipped it.  Time      *)
(* passes in ticks.  The task function takes any time to return.           *)
(***************************************************************************)
Managers == {1, 2}
MaxTTL == 2
MaxAge == 3
MaxExecs == 4

\* (mutant) a SetNX that sets the key although it exists
SetNX_Always(redis, ttl) == [ok |-> TRUE, redis |-> [redis EXCEPT !.lock = ttl]]

\* client.SetNX(ctx, lockKey, "locked", item.cfg.lockTTL)
SetNX(redis, ttl) ==
    IF redis.lock = 0
    THEN [ok |-> TRUE, redis |-> [redis EXCEPT !.lock = ttl]]
    ELSE [ok |-> FALSE, redis |-> redis]

\* executeTask of manager m for the distributed task, up to the call of
\* item.fn() in doRun, or to the return when the lock is held
executeTask(m) ==
    /\ gos[m].at = "idle"
    /\ hist.ran + hist.skipped < MaxExecs
    /\ \E r \in {SetNX(em.redis, em.ttl)} :
           /\ em' = [em EXCEPT !.redis = r.redis]
           /\ IF r.ok
              THEN /\ gos' = [gos EXCEPT ![m] = [at |-> "fn", age |-> 0]]
                   /\ hist' = [hist EXCEPT !.ran = @ + 1]
              ELSE /\ gos' = gos
                   /\ hist' = [hist EXCEPT !.skipped = @ + 1]
    /\ UNCHANGED <<nodes, x, status, subR, stack, trace, pc, regs>>

\* item.fn() returns; the lock key is left to expire
doRunReturns(m) ==
    /\ gos[m].at = "fn"
    /\ gos' = [gos EXCEPT ![m] = [at |-> "idle", age |-> 0]]
    /\ UNCHANGED <<nodes, x, status, subR, stack, trace, pc, regs, em, hist>>

\* one unit of time passes: Redis counts the key down and drops it at 0
TimePasses ==
    /\ \A m \in Managers : gos[m].age < MaxAge
    /\ \E m \in Managers : gos[m].at = "fn"
    /\ em' = [em EXCEPT !.redis.lock = IF @ > 0 THEN @ - 1 ELSE 0]
    /\ gos' = [m \in Managers |-> IF gos[m].at = "fn"
                                   THEN [gos[m] EXCEPT !.age = @ + 1] ELSE gos[m]]
    /\ UNCHANGED <<nodes, x, status, subR, stack, trace, pc, regs, hist>>

InitDistributed ==
    /\ nodes = <<>>
    /\ x = NewX
    /\ status = 0
    /\ subR = 0
    /\ stack = <<>>
    /\ trace = <<>>
    /\ pc = "idle"
    /\ regs = <<>>
    /\ \E ttl \in 1..MaxTTL : em = [redis |-> [lock |-> 0], ttl |-> ttl]
    /\ gos = [m \in Managers |-> [at |-> "idle", age |-> 0]]
    /\ hist = [ran |-> 0, skipped |-> 0]

NextDistributed ==
    \/ \E m \in Managers : executeTask(m)
    \/ \E m \in Managers : doRunReturns(m)
    \/ TimePasses

SpecDistributed == InitDistributed /\ [][NextDistributed]_vars

(***************************************************************************)
(* Mounting: routers made by NewRouter are put under the root router with  *)
(* Extend, next to Set, SubRouter, Use and Clear calls.  A router may be    *)
(* mounted more than once, at /a and at /b; a path may go on after a       *)
(* catch-all segment, as /a/**/b does.  regs holds, for a NewRouter    *)
(* call, the node it made, and 0 for the other calls.                      *)
(***************************************************************************)
MountNodes == 4
MountPrefixes == {Join(<<sA>>), Join(<<sB>>), Join(<<sA, sStarStar, sB>>)}

MountCall(h, made) ==
    /\ pc # "serving"
    /\ Len(regs) < MaxRegs
    /\ \E hv \in {h} : Len(hv) <= MountNodes /\ nodes' = hv
    /\ regs' = Append(regs, made)
    /\ UNCHANGED <<x, status, subR, stack, trace, pc, em, gos, hist>>

\* sub := NewRouter()
MountNewRouter == MountCall(Append(nodes, NewRouter), Len(nodes) + 1)

\* the nodes from r up to its router
RECURSIVE UpFrom(_, _)
UpFrom(h, n) == IF n = 0 THEN {} ELSE {n} \cup UpFrom(h, h[n].parent)

\* r.Extend(prefix, sub) for a router sub made by NewRouter, r in the tree of
\* the root router, the place of the mount not below sub
MountExtend(r, prefix, sub) ==
    /\ RootOf(nodes, r) = 1 /\ InTree(nodes, r)
    /\ \E k \in 1..Len(regs) : regs[k] = sub
    /\ \E g \in {get_subrouter(nodes, r, prefix)} :
           sub \notin UpFrom(g.nodes, g.nodes[g.node].parent)
    /\ MountCall(Extend(nodes, r, prefix, sub), 0)

MountSet(r, prefix) ==
    /\ RootOf(nodes, r) = 1 /\ InTree(nodes, r)
    /\ MountCall(SetRoute(nodes, r, prefix, "GET", <<HandlerOf(r)>>).nodes, 0)

MountSubRouter(r, prefix) ==
    /\ RootOf(nodes, r) = 1 /\ InTree(nodes, r)
    /\ MountCall(SubRouter(nodes, r, prefix).nodes, 0)
    /\ Len(nodes') > Len(nodes)

MountUse(r) == MountCall(Use(nodes, r, [method |-> "", ms |-> <<BeforeOf(r)>>]), 0)

MountClear(r, prefix) ==
    /\ RootOf(nodes, r) = 1 /\ InTree(nodes, r)
    /\ MountCall(Clear(nodes, r, prefix, "GET"), 0)

NextMount ==
    \/ MountNewRouter
    \/ \E r, sub \in 1..Len(nodes) : \E prefix \in MountPrefixes : MountExtend(r, prefix, sub)
    \/ \E r \in 1..Len(nodes) : \E prefix \in MountPrefixes : MountSet(r, prefix)
    \/ \E r \in 1..Len(nodes) : \E prefix \in MountPrefixes : MountSubRouter(r, prefix)
    \/ \E r \in 1..Len(nodes) : MountUse(r)
    \/ \E r \in 1..Len(nodes) : \E prefix \in MountPrefixes : MountClear(r, prefix)

SpecMount == InitRouter /\ [][NextMount]_vars

(***************************************************************************)
(* The pool: requests served one after the other with the context that     *)
(* the previous request released.  The routes bind zero, one or two path   *)
(* parameters; the first handler of a route calls Stop, Skip past the end  *)
(* or Next, sets or returns a pipe value, or returns an error nobody       *)
(* handles.  hist keeps what the context held when it was last released.   *)
(***************************************************************************)
PoolRoutes ==
    << Route(<<sA, sP>>, "GET"),            \* 1  /a/{p}
       Route(<<sB>>, "GET"),                \* 2  /b
       Route(<<sA, sP, sQ>>, "GET") >>      \* 3  /a/{p}/{q}

PoolHandlers ==
    {FuncX2AnyErr(1, a, "") : a \in {NoAct, ActNext, ActStop, ActSkipN(Uint(2)), ActSetPipe}}
    \cup {FuncX2AnyErr(1, NoAct, "E1"), Returns(1, NoAct, "A")}

PoolPaths == {Join(<<sA, sA>>), Join(<<sB>>), Join(<<sA, sA, sB>>), Join(<<sA>>)}

Released(c, st) == [fid |-> c.fid, pv |-> c.PipeValue, pp |-> c.PathParams, status |-> st]

\* r.Get(path, h, h2) on the root router, before the first request; the
\* routes are registered in the order of the list
PoolSet(i, h) ==
    /\ pc = "setup"
    /\ i = Len(regs) + 1
    /\ nodes' = SetRoute(nodes, 1, PoolRoutes[i].path, "GET",
                         <<h, FuncX2AnyErr(2, NoAct, "")>>).nodes
    /\ regs' = Append(regs, i)
    /\ UNCHANGED <<x, status, subR, stack, trace, pc, em, gos, hist>>

\* ServeHTTP returns: the deferred release(x) puts the context into the pool
PoolRelease ==
    /\ pc = "serving"
    /\ stack = <<>>
    /\ x' = release(x)
    /\ hist' = Released(x, status)
    /\ pc' = "idle"
    /\ status' = 0
    /\ subR' = 0
    /\ trace' = <<>>
    /\ UNCHANGED <<nodes, stack, regs, em, gos>>

InitPool ==
    /\ nodes = <<NewRouter>>
    /\ x = NewX
    /\ status = 0
    /\ subR = 0
    /\ stack = <<>>
    /\ trace = <<>>
    /\ pc = "setup"
    /\ regs = <<>>
    /\ em = <<>> /\ gos = <<>>
    /\ hist = Released(NewX, 0)

NextPool ==
    \/ \E i \in 1..Len(PoolRoutes) : \E h \in PoolHandlers : PoolSet(i, h)
    \/ \E path \in PoolPaths : ServeHTTP(1, path, "GET")
    \/ X_Next
    \/ HandlerBody
    \/ HandlerReturn
    \/ X_handleErr
    \/ PoolRelease

SpecPool == InitPool /\ [][NextPool]_vars

(***************************************************************************)
(* Registration while requests are served.  route has no lock: a goroutine *)
(* that calls Set, Clear, Use or After runs syncCache statement by         *)
(* statement while ServeHTTP runs match in the goroutine of a request.     *)
(* gos is the stack of the syncCache calls in progress; one goroutine      *)
(* registers, so that the calls themselves follow each other.  The         *)
(* interleavings are those of whole statements; match runs in one step.    *)
(***************************************************************************)
SyncFrame(r) == [r |-> r, at |-> "make", keys |-> {}, k |-> "", c |-> <<>>, child |-> 1]

SyncTop == gos[Len(gos)]
SyncSetTop(f) == [gos EXCEPT ![Len(gos)] = f]

\* r.handlersCache = make(...); r.handlersInfoCache = make(...); then the loop
\* over the parents, which writes locals only
SyncMake ==
    /\ gos # <<>> /\ SyncTop.at = "make"
    /\ nodes' = [nodes EXCEPT ![SyncTop.r].handlersCache = NoMap,
                              ![SyncTop.r].handlersInfoCache = NoMap]
    /\ gos' = SyncSetTop([SyncTop EXCEPT
                 !.at = "range", !.keys = DOMAIN nodes[SyncTop.r].methods,
                 !.c = Climb(nodes, SyncTop.r, [before |-> <<>>, beforeInfo |-> <<>>,
                                                after |-> <<>>, afterInfo |-> <<>>])])
    /\ UNCHANGED <<x, status, subR, stack, trace, pc, regs, em, hist>>

\* for k, mh := range r.methods (in any order):
\*     r.handlersCache[k] = append(append([]any{}, before...), mh.Handlers...)
SyncBefore ==
    /\ gos # <<>> /\ SyncTop.at = "range"
    /\ \E k \in SyncTop.keys :
           /\ nodes' = [nodes EXCEPT ![SyncTop.r].handlersCache =
                            MapSet(@, k, SyncTop.c.before \o nodes[SyncTop.r].methods[k].Handlers)]
           /\ gos' = SyncSetTop([SyncTop EXCEPT !.at = "after", !.k = k])
    /\ UNCHANGED <<x, status, subR, stack, trace, pc, regs, em, hist>>

\*     r.handlersCache[k] = append(r.handlersCache[k], after...), and the two
\*     assignments of r.handlersInfoCache[k]
SyncAfter ==
    /\ gos # <<>> /\ SyncTop.at = "after"
    /\ LET r == SyncTop.r
           k == SyncTop.k
           c == SyncTop.c
       IN nodes' = [nodes EXCEPT
                      ![r].handlersCache = MapSet(@, k, @[k] \o c.after),
                      ![r].handlersInfoCache =
                          MapSet(@, k, c.beforeInfo \o nodes[r].methods[k].HandlersInfo
                                           \o c.afterInfo)]
    /\ gos' = SyncSetTop([SyncTop EXCEPT !.at = "range", !.keys = @ \ {SyncTop.k}])
    /\ UNCHANGED <<x, status, subR, stack, trace, pc, regs, em, hist>>

\* for _, sub := range r.children { sub.syncCache() }, and the return
SyncChildren ==
    /\ gos # <<>> /\ SyncTop.at = "range" /\ SyncTop.keys = {}
    /\ gos' = IF SyncTop.child > Len(nodes[SyncTop.r].children)
              THEN SubSeq(gos, 1, Len(gos) - 1)
              ELSE Append(SyncSetTop([SyncTop EXCEPT !.child = @ + 1]),
                          SyncFrame(nodes[SyncTop.r].children[SyncTop.child]))
    /\ UNCHANGED <<nodes, x, status, subR, stack, trace, pc, regs, em, hist>>

\* a registration call up to its call of syncCache on node g.node
Registers(g, op) ==
    /\ gos = <<>>
    /\ Len(regs) < MaxRegs
    /\ nodes' = g.nodes
    /\ gos' = <<SyncFrame(g.node)>>
    /\ regs' = Append(regs, op)
    /\ UNCHANGED <<x, status, subR, stack, trace, pc, em, hist>>

GoSet(i) ==
    Registers(SetRecord(nodes, 1, MethodRoutes[i].path, MethodRoutes[i].method,
                        <<MethodHandlerOf(i, Len(regs) + 1)>>), i)
GoClear(i) ==
    Registers(ClearRecord(nodes, 1, MethodRoutes[i].path, MethodRoutes[i].method), 0 - i)
GoUse ==
    Registers([nodes |-> addAll(nodes, 1, <<BeforeOf(1)>>, "", TRUE), node |-> 1], 0)
GoAfter ==
    Registers([nodes |-> addAll(nodes, 1, <<AfterOf(1)>>, "", FALSE), node |-> 1], 0)

InitConcurrent ==
    /\ nodes = <<NewRouter>>
    /\ x = NewX
    /\ status = 0
    /\ subR = 0
    /\ stack = <<>>
    /\ trace = <<>>
    /\ pc = "setup"
    /\ regs = <<>>
    /\ em = <<>> /\ gos = <<>> /\ hist = <<>>

NextConcurrent ==
    \/ \E i \in 1..Len(MethodRoutes) : GoSet(i)
    \/ \E i \in 1..Len(MethodRoutes) : GoClear(i)
    \/ GoUse
    \/ GoAfter
    \/ SyncMake
    \/ SyncBefore
    \/ SyncAfter
    \/ SyncChildren
    \/ \E req \in MethodRequests : ServeHTTP(1, req.path, req.method)
    \/ X_Next
    \/ HandlerBody
    \/ HandlerReturn
    \/ Release

SpecConcurrent == InitConcurrent /\ [][NextConcurrent]_vars

NextParse == X_Parse \/ (trace # <<>> /\ Release)

SpecParse == InitParse /\ [][NextParse]_vars

(***************************************************************************)
(* The task scheduler (contrib/event).  The EventManager is the record em; *)
(* a *taskItem is the key of the task, the item itself is em.tasks[key]    *)
(* from the Add that stored it on: Cancel deletes the key from the map,    *)
(* which the model records in em.cancelled, while the goroutines that hold *)
(* the *taskItem still reach the item; a cancelled key is not added again, *)
(* so a key names one item.  A map over keys is a function on Keys: <<>>   *)
(* is "no entry" in pendingReverseDeps, "none" in doneChans.  Every        *)
(* critical section of e.mu but the one of Stop is one step that needs the *)
(* mutex free; Stop keeps the mutex while it waits in e.wg.Wait(), so      *)
(* em.mu is "" (free) or "Stop".  A task function returns nil or, for the  *)
(* tasks made with Fails, an error; the options At, RestartOnFail and      *)
(* Distributed are not used by the tasks of the model.                     *)
(*                                                                         *)
(* A goroutine is a record in the bag gos: the serial worker, the goroutine of *)
(* startTask, the goroutine that sends to a full serialChan, and the       *)
(* caller that is inside Run or Stop.  hist counts the calls that had an   *)
(* effect and those of Start and, for each task, the calls of Run, how     *)
(* often its function was entered, how often by Run (source "manual"), and *)
(* how often it returned; where tasks are cancelled and added twice, also  *)
(* the CancelFuncs that Add returned, the calls of Add that were ignored   *)
(* and the calls of a CancelFunc that does nothing.                        *)
(***************************************************************************)
MaxCalls == 5       \* calls of Add, Start, Stop and Run made by the caller
MaxTicks == 1       \* ticks of the ticker of a periodic task

\* make(chan *taskItem, 1024): the capacity of serialChan, scaled down so
\* that the tasks of the model fill the channel
SerialChanCap == 1

\* the arguments of a call of Add: the key, the options, and what the
\* function returns ("" for nil)
Task(key, interval, after, before) ==
    [key |-> key, interval |-> interval, after |-> after, before |-> before, err |-> ""]

\* func() error { return errors.New("failed") }
Fails(t) == [t EXCEPT !.err = "failed"]

\* The calls of Add of the model: two simple one-time tasks, a task that runs
\* After("1"), a task that runs Before("2"), and a periodic task; then two
\* other tasks for the key "1", whose functions fail: a simple one and one
\* that runs After("2").
Tasks ==
    << Task("1", 0, <<>>, <<>>),
       Task("2", 0, <<>>, <<>>),
       Task("A", 0, <<"1">>, <<>>),
       Task("B", 0, <<>>, <<"2">>),
       Task("P", 1, <<>>, <<>>),
       Fails(Task("1", 0, <<>>, <<>>)),
       Fails(Task("1", 0, <<"2">>, <<>>)) >>

\* the tasks whose functions return nil, one for each key
NilTasks == 1..5

Keys == {Tasks[d].key : d \in 1..Len(Tasks)}

NewEventManager ==
    [tasks              |-> [k \in Keys |-> <<>>],
     pendingReverseDeps |-> [k \in Keys |-> <<>>],
     orderedKeys        |-> <<>>,
     mu                 |-> "",
     ctx                |-> "nil",
     wg                 |-> 0,
     running            |-> FALSE,
     doneChans          |-> [k \in Keys |-> "none"],
     serialChan         |-> <<>>,
     cancelled          |-> {}]

\* a goroutine at a place of its code, with the task it works on and, in
\* startTask, the index of the dependency it waits for
Go(fn, at, key, i) == [fn |-> fn, at |-> at, key |-> key, i |-> i]

NoRuns ==
    [calls  |-> 0,
     starts |-> 0,
     runs   |-> [k \in Keys |-> 0],
     begun  |-> [k \in Keys |-> 0],
     manual |-> [k \in Keys |-> 0],
     ended  |-> [k \in Keys |-> 0],
     funcs   |-> {},
     ignored |-> 0,
     noops   |-> 0]

\* item.fn() is entered and returns
Begin(key) == [hist EXCEPT !.begun[key] = @ + 1]
End(key) == [hist EXCEPT !.ended[key] = @ + 1]

\* the state of the manager and its goroutines, as the calls thread it
ES(m, g) == [em |-> m, gos |-> g]

\* the goroutines gs with one more, with one less, and with g at another place
Spawn(gs, g) == gs (+) SetToBag({g})
Without(gs, g) == gs (-) SetToBag({g})
Moved(gs, g, g2) == Spawn(Without(gs, g), g2)

Item(m, key) == m.tasks[key][1]

\* _, ok := e.tasks[key]
InTasks(m, key) == m.tasks[key] # <<>> /\ key \notin m.cancelled

\* <-ctx.Done() of the context of startTask, a child of e.ctx, is ready
CtxDone(m, key) == m.ctx = "cancelled" \/ Item(m, key).cancel = "called"

\* item.cfg.interval == 0 && !item.cfg.restartOnFail &&
\* item.cfg.startAt.IsZero() && len(item.cfg.after) == 0
IsSimple(item) == item.cfg.interval = 0 /\ item.cfg.after = <<>>

\* select { case e.serialChan <- item: default: go func() { e.serialChan <- item }() }
Enqueue(s, key) ==
    IF Len(s.em.serialChan) < SerialChanCap
    THEN ES([s.em EXCEPT !.serialChan = Append(@, key)], s.gos)
    ELSE ES(s.em, Spawn(s.gos, Go("send", "send", key, 0)))

\* startTask: e.wg.Add(1); go func() { ... }()
startTask(s, key) ==
    ES([s.em EXCEPT !.wg = @ + 1, !.tasks[key][1].cancel = "set"],
       Spawn(s.gos, Go("startTask",
                       IF Item(s.em, key).cfg.interval > 0 THEN "select" ELSE "start",
                       key, 1)))

\* the simple one-time task goes to the serial channel, any other to startTask
Launch(s, key) ==
    IF IsSimple(Item(s.em, key)) THEN Enqueue(s, key) ELSE startTask(s, key)

\* item.executed.CompareAndSwap(false, true): the result and the item after it
CompareAndSwap_Always(item) == [ok |-> TRUE, item |-> [item EXCEPT !.executed = TRUE]]

CompareAndSwap(item) ==
    [ok |-> ~item.executed, item |-> [item EXCEPT !.executed = TRUE]]

\* Add, the loop over cfg.before: the task key must run before the targets
RECURSIVE AddBefore(_, _, _)
AddBefore(m, key, targets) ==
    IF targets = <<>> THEN m
    ELSE LET targetKey == Head(targets)
             m1 == IF InTasks(m, targetKey)
                   THEN IF m.running THEN m
                        ELSE [m EXCEPT !.tasks[targetKey][1].cfg.after = Append(@, key)]
                   ELSE [m EXCEPT !.pendingReverseDeps[targetKey] = Append(@, key)]
         IN AddBefore(m1, key, Tail(targets))

\* (mutant) Add stores the new task in place of the one registered for the key
EventManager_Add_Replace(s, d) ==
    LET t    == Tasks[d]
        cfg  == [interval |-> t.interval, after |-> t.after, before |-> t.before]
        item == [key |-> t.key, fn |-> d, cfg |-> cfg, executed |-> FALSE, cancel |-> "nil"]
        m    == [s.em EXCEPT !.tasks[t.key] = <<item>>,
                             !.orderedKeys = IF InTasks(s.em, t.key) THEN @ ELSE Append(@, t.key)]
    IN IF m.running THEN Launch(ES(m, s.gos), t.key) ELSE ES(m, s.gos)

\* e.Add(key, fn, opts...) with the options of Tasks[d]
EventManager_Add(s, d) ==
    LET t       == Tasks[d]
        ordered == ~(t.interval > 0 /\ (t.after # <<>> \/ t.before # <<>>))
        cfg     == [interval |-> t.interval,
                    after    |-> IF ordered THEN t.after ELSE <<>>,
                    before   |-> IF ordered THEN t.before ELSE <<>>]
        item    == [key |-> t.key, fn |-> d, cfg |-> cfg, executed |-> FALSE, cancel |-> "nil"]
        m       == s.em
    IN IF InTasks(m, t.key) THEN s
       ELSE LET m1 == [m EXCEPT !.tasks[t.key] = <<item>>,
                                !.orderedKeys = Append(@, t.key)]
                m2 == AddBefore(m1, t.key, cfg.before)
                m3 == [m2 EXCEPT !.tasks[t.key][1].cfg.after = @ \o m2.pendingReverseDeps[t.key],
                                 !.pendingReverseDeps[t.key] = <<>>]
            IN IF m3.running THEN Launch(ES(m3, s.gos), t.key) ELSE ES(m3, s.gos)

\* Start, the loop over e.orderedKeys
RECURSIVE StartAll(_, _)
StartAll(s, keys) ==
    IF keys = <<>> THEN s
    ELSE StartAll(IF InTasks(s.em, Head(keys)) THEN Launch(s, Head(keys)) ELSE s,
                  Tail(keys))

\* e.Start() when the manager is not running
EventManager_Start(s) ==
    LET m == [s.em EXCEPT !.ctx = "live", !.running = TRUE, !.wg = @ + 1]
    IN StartAll(ES(m, Spawn(s.gos, Go("processSerialTasks", "select", "", 0))),
                m.orderedKeys)

\* markDone: the completion channel of key is closed
markDone(m, key) == [m EXCEPT !.doneChans[key] = "closed"]

\* getDoneChan: the completion channel of key exists
getDoneChan(m, key) ==
    IF m.doneChans[key] = "none" THEN [m EXCEPT !.doneChans[key] = "open"] ELSE m

(***************************************************************************)
(* The calls on the manager.  They are made by one goroutine, as in the    *)
(* tests: a call begins when the one before it has returned.               *)
(***************************************************************************)
CallerFree == \A g \in BagToSet(gos) : g.fn \notin {"Run", "Stop"}

Add(d) ==
    /\ em # <<>>
    /\ CallerFree
    /\ em[1].mu = ""
    /\ hist.calls < MaxCalls
    /\ em[1].tasks[Tasks[d].key] = <<>>
    /\ LET s == EventManager_Add(ES(em[1], gos), d)
       IN em' = <<s.em>> /\ gos' = s.gos
    /\ hist' = [hist EXCEPT !.calls = @ + 1]
    /\ UNCHANGED rvars

\* Start on a manager that is running returns at once
Start ==
    /\ em # <<>>
    /\ CallerFree
    /\ em[1].mu = ""
    /\ ~em[1].running
    /\ hist.calls < MaxCalls
    /\ LET s == EventManager_Start(ES(em[1], gos))
       IN em' = <<s.em>> /\ gos' = s.gos
    /\ hist' = [hist EXCEPT !.calls = @ + 1, !.starts = @ + 1]
    /\ UNCHANGED rvars

\* Stop up to e.wg.Wait(); Stop on a manager that is not running returns at once
Stop ==
    /\ em # <<>>
    /\ CallerFree
    /\ em[1].mu = ""
    /\ em[1].running
    /\ hist.calls < MaxCalls
    /\ em' = <<[em[1] EXCEPT !.mu = "Stop", !.ctx = "cancelled", !.running = FALSE]>>
    /\ gos' = Spawn(gos, Go("Stop", "wg.Wait", "", 0))
    /\ hist' = [hist EXCEPT !.calls = @ + 1]
    /\ UNCHANGED rvars

\* e.wg.Wait() returns and the deferred e.mu.Unlock() runs
StopReturn(g) ==
    /\ g.fn = "Stop"
    /\ em[1].wg = 0
    /\ em' = <<[em[1] EXCEPT !.mu = ""]>>
    /\ gos' = Without(gos, g)
    /\ hist' = hist
    /\ UNCHANGED rvars

\* Run(key) up to the call of item.fn, or to the return when the one-time
\* task was executed before
Run(key) ==
    /\ em # <<>>
    /\ CallerFree
    /\ em[1].mu = ""
    /\ InTasks(em[1], key)
    /\ hist.calls < MaxCalls
    /\ LET item      == Item(em[1], key)
           isOneTime == item.cfg.interval = 0
           cas       == CompareAndSwap(item)
       IN IF isOneTime /\ ~cas.ok
          THEN /\ hist' = [hist EXCEPT !.calls = @ + 1, !.runs[key] = @ + 1]
               /\ UNCHANGED <<em, gos>>
          ELSE /\ em' = IF isOneTime THEN <<[em[1] EXCEPT !.tasks[key] = <<cas.item>>]>> ELSE em
               /\ gos' = Spawn(gos, Go("Run", "fn", key, 0))
               /\ hist' = [Begin(key) EXCEPT !.calls = @ + 1, !.runs[key] = @ + 1, !.manual[key] = @ + 1]
    /\ UNCHANGED rvars

\* what item.fn() returns ("" for nil)
FnErr(item) == Tasks[item.fn].err

\* (mutant) Run marks the task done whatever its function returned
RunMarksDone_Always(item) == TRUE

\* Run: if err == nil { e.markDone(key) }
RunMarksDone(item) == FnErr(item) = ""

\* Run from the return of item.fn to its own return
RunStep(g) ==
    /\ g.fn = "Run"
    /\ \/ /\ g.at = "fn"
          /\ gos' = IF RunMarksDone(Item(em[1], g.key))
                    THEN Moved(gos, g, [g EXCEPT !.at = "markDone"])
                    ELSE Without(gos, g)
          /\ hist' = End(g.key)
          /\ em' = em
       \/ /\ g.at = "markDone"
          /\ em[1].mu = ""
          /\ em' = <<markDone(em[1], g.key)>>
          /\ gos' = Without(gos, g)
          /\ hist' = hist
    /\ UNCHANGED rvars

(***************************************************************************)
(* The goroutines of the manager.                                           *)
(***************************************************************************)
\* processSerialTasks: one step of the serial worker
processSerialTasks(g) ==
    /\ g.fn = "processSerialTasks"
    /\ \/ /\ g.at = "select"
          /\ em[1].ctx = "cancelled"
          /\ em' = <<[em[1] EXCEPT !.wg = @ - 1]>>
          /\ gos' = Without(gos, g)
          /\ hist' = hist
       \/ /\ g.at = "select"
          /\ em[1].serialChan # <<>>
          /\ em' = <<[em[1] EXCEPT !.serialChan = Tail(@)]>>
          /\ gos' = Moved(gos, g, [g EXCEPT !.at = "exists", !.key = Head(em[1].serialChan)])
          /\ hist' = hist
       \/ /\ g.at = "exists"
          /\ em[1].mu = ""
          /\ gos' = IF InTasks(em[1], g.key)
                    THEN Moved(gos, g, [g EXCEPT !.at = "CompareAndSwap"])
                    ELSE Moved(gos, g, [g EXCEPT !.at = "select", !.key = ""])
          /\ UNCHANGED <<em, hist>>
       \/ /\ g.at = "CompareAndSwap"
          /\ LET key == g.key
                 cas == CompareAndSwap(Item(em[1], key))
             IN IF ~cas.ok
                THEN /\ gos' = Moved(gos, g, [g EXCEPT !.at = "select", !.key = ""])
                     /\ UNCHANGED <<em, hist>>
                ELSE /\ em' = <<[em[1] EXCEPT !.tasks[key] = <<[cas.item EXCEPT !.cancel = "set"]>>]>>
                     /\ gos' = Moved(gos, g, [g EXCEPT !.at = "fn"])
                     /\ hist' = Begin(key)
       \/ /\ g.at = "fn"
          /\ gos' = Moved(gos, g, [g EXCEPT !.at = "markDone"])
          /\ hist' = End(g.key)
          /\ em' = em
       \/ /\ g.at = "markDone"
          /\ em[1].mu = ""
          /\ em' = <<[markDone(em[1], g.key) EXCEPT !.tasks[g.key][1].cancel = "called"]>>
          /\ gos' = Moved(gos, g, [g EXCEPT !.at = "select", !.key = ""])
          /\ hist' = hist
    /\ UNCHANGED rvars

\* the goroutine of startTask returns: defer cancel(); defer e.wg.Done()
TaskExit(g) ==
    /\ em' = <<[em[1] EXCEPT !.wg = @ - 1]>>
    /\ gos' = Without(gos, g)
    /\ hist' = hist

\* the goroutine of startTask for a one-time task
RunOnce(g) ==
    /\ g.fn = "startTask"
    /\ Item(em[1], g.key).cfg.interval = 0
    /\ LET key   == g.key
           item  == Item(em[1], key)
           after == item.cfg.after
       IN \/ /\ g.at = "start"
             /\ LET cas == CompareAndSwap(item)
                IN IF ~cas.ok THEN TaskExit(g)
                   ELSE /\ em' = <<[em[1] EXCEPT !.tasks[key] = <<cas.item>>]>>
                        /\ gos' = Moved(gos, g, [g EXCEPT !.at = "getDoneChan"])
                        /\ hist' = hist
          \/ /\ g.at = "getDoneChan"
             /\ IF g.i > Len(after)
                THEN /\ gos' = Moved(gos, g, [g EXCEPT !.at = "fn"])
                     /\ hist' = Begin(key)
                     /\ em' = em
                ELSE /\ em[1].mu = ""
                     /\ em' = <<getDoneChan(em[1], after[g.i])>>
                     /\ gos' = Moved(gos, g, [g EXCEPT !.at = "wait"])
                     /\ hist' = hist
          \/ /\ g.at = "wait"
             /\ CtxDone(em[1], key)
             /\ TaskExit(g)
          \/ /\ g.at = "wait"
             /\ em[1].doneChans[after[g.i]] = "closed"
             /\ gos' = Moved(gos, g, [g EXCEPT !.at = "getDoneChan", !.i = @ + 1])
             /\ UNCHANGED <<em, hist>>
          \/ /\ g.at = "fn"
             /\ gos' = Moved(gos, g, [g EXCEPT !.at = "markDone"])
             /\ hist' = End(key)
             /\ em' = em
          \/ /\ g.at = "markDone"
             /\ em[1].mu = ""
             /\ em' = <<[markDone(em[1], key) EXCEPT !.wg = @ - 1]>>
             /\ gos' = Without(gos, g)
             /\ hist' = hist
    /\ UNCHANGED rvars

\* the goroutine of startTask for a periodic task
Periodic(g) ==
    /\ g.fn = "startTask"
    /\ Item(em[1], g.key).cfg.interval > 0
    /\ LET key == g.key
       IN \/ /\ g.at = "select"
             /\ CtxDone(em[1], key)
             /\ TaskExit(g)
          \/ /\ g.at = "select"
             /\ hist.begun[key] - hist.manual[key] < MaxTicks
             /\ gos' = Moved(gos, g, [g EXCEPT !.at = "fn"])
             /\ hist' = Begin(key)
             /\ em' = em
          \/ /\ g.at = "fn"
             /\ gos' = Moved(gos, g, [g EXCEPT !.at = "select"])
             /\ hist' = End(key)
             /\ em' = em
    /\ UNCHANGED rvars

\* go func() { e.serialChan <- item }(): the send when the channel has room
Send(g) ==
    /\ g.fn = "send"
    /\ Len(em[1].serialChan) < SerialChanCap
    /\ em' = <<[em[1] EXCEPT !.serialChan = Append(@, g.key)]>>
    /\ gos' = Without(gos, g)
    /\ UNCHANGED hist
    /\ UNCHANGED rvars

\* one step of a goroutine of the manager or of a caller inside Run or Stop
GoStep(g) ==
    \/ processSerialTasks(g)
    \/ RunOnce(g)
    \/ Periodic(g)
    \/ Send(g)
    \/ RunStep(g)
    \/ StopReturn(g)

\* e := NewEventManager()
InitEvent ==
    /\ nodes = <<>>
    /\ x = NewX
    /\ status = 0
    /\ subR = 0
    /\ stack = <<>>
    /\ trace = <<>>
    /\ pc = "idle"
    /\ regs = <<>>
    /\ em = <<NewEventManager>>
    /\ gos = EmptyBag
    /\ hist = NoRuns

NextEvent ==
    \/ \E d \in NilTasks : Add(d)
    \/ Start
    \/ Stop
    \/ \E key \in Keys : Run(key)
    \/ \E g \in BagToSet(gos) : processSerialTasks(g)
    \/ \E g \in BagToSet(gos) : RunOnce(g)
    \/ \E g \in BagToSet(gos) : Periodic(g)
    \/ \E g \in BagToSet(gos) : Send(g)
    \/ \E g \in BagToSet(gos) : RunStep(g)
    \/ \E g \in BagToSet(gos) : StopReturn(g)

SpecEvent == InitEvent /\ [][NextEvent]_vars

\* The Go scheduler runs every goroutine that can take a step.
SpecEventFair == SpecEvent /\ WF_vars(\E g \in BagToSet(gos) : GoStep(g))

(***************************************************************************)
(* Cancel, Add for a key that is registered, and tasks that fail.          *)
(***************************************************************************)
\* e.Cancel(key): item.cancel is nil until startTask or the serial worker
\* has set it
EventManager_Cancel(m, key) ==
    IF InTasks(m, key)
    THEN [m EXCEPT !.tasks[key][1].cancel = IF @ = "nil" THEN "nil" ELSE "called",
                   !.cancelled = @ \cup {key}]
    ELSE m

\* the CancelFunc that e.Add returns for Tasks[d]: func() {} when the key is
\* registered, func() { e.Cancel(storedKey) } otherwise
CancelFunc(m, d) ==
    [key |-> Tasks[d].key, fn |-> d, noop |-> InTasks(m, Tasks[d].key)]

\* cancel := e.Add(key, fn, opts...), whether or not the key is registered
AddCall(d) ==
    /\ em # <<>>
    /\ CallerFree
    /\ em[1].mu = ""
    /\ hist.calls < MaxCalls
    /\ Tasks[d].key \notin em[1].cancelled
    /\ LET s == EventManager_Add(ES(em[1], gos), d)
           f == CancelFunc(em[1], d)
       IN /\ em' = <<s.em>>
          /\ gos' = s.gos
          /\ hist' = [hist EXCEPT !.calls = @ + 1,
                                  !.funcs = @ \cup {f},
                                  !.ignored = IF f.noop THEN @ + 1 ELSE @]
    /\ UNCHANGED rvars

\* e.Cancel(key)
Cancel(key) ==
    /\ em # <<>>
    /\ CallerFree
    /\ em[1].mu = ""
    /\ hist.calls < MaxCalls
    /\ em' = <<EventManager_Cancel(em[1], key)>>
    /\ hist' = [hist EXCEPT !.calls = @ + 1]
    /\ UNCHANGED <<gos, rvars>>

\* cancel(), for a CancelFunc that a call of Add returned
CallCancelFunc(f) ==
    /\ em # <<>>
    /\ CallerFree
    /\ hist.calls < MaxCalls
    /\ IF f.noop
       THEN /\ em' = em
            /\ hist' = [hist EXCEPT !.calls = @ + 1, !.noops = @ + 1]
       ELSE /\ em[1].mu = ""
            /\ em' = <<EventManager_Cancel(em[1], f.key)>>
            /\ hist' = [hist EXCEPT !.calls = @ + 1]
    /\ UNCHANGED <<gos, rvars>>

NextCancel ==
    \/ \E d \in 1..Len(Tasks) : AddCall(d)
    \/ Start
    \/ Stop
    \/ \E key \in Keys : Run(key)
    \/ \E key \in Keys : Cancel(key)
    \/ \E f \in hist.funcs : CallCancelFunc(f)
    \/ \E g \in BagToSet(gos) : processSerialTasks(g)
    \/ \E g \in BagToSet(gos) : RunOnce(g)
    \/ \E g \in BagToSet(gos) : Periodic(g)
    \/ \E g \in BagToSet(gos) : Send(g)
    \/ \E g \in BagToSet(gos) : RunStep(g)
    \/ \E g \in BagToSet(gos) : StopReturn(g)

SpecCancel == InitEvent /\ [][NextCancel]_vars

\* The tasks of ExecutionOrder_FailureDoesNotBlock: a task that fails, simple
\* or with a dependency of its own, and a task that runs After it.
FailTasks == {2, 3, 6, 7}

\* a manager that is started and keeps running: Add, Start and Run
NextFail ==
    \/ \E d \in FailTasks : AddCall(d)
    \/ Start
    \/ \E key \in Keys : Run(key)
    \/ \E g \in BagToSet(gos) : processSerialTasks(g)
    \/ \E g \in BagToSet(gos) : RunOnce(g)
    \/ \E g \in BagToSet(gos) : Send(g)
    \/ \E g \in BagToSet(gos) : RunStep(g)

SpecFail ==
    InitEvent /\ [][NextFail]_vars /\ WF_vars(\E g \in BagToSet(gos) : GoStep(g))

\* the value that the handler of the event at position p returned
Returned(p) == x.fcs[trace[p].idx + 1].val

\* the pipe slot right after the event at position p, as far as the trace and
\* the state show it
SlotAfter(p) == IF p < Len(trace) THEN trace[p + 1].pv ELSE x.PipeValue

\* C13 (PipeValue hand-off): when a handler returns a non-nil value and a nil
\* error the value is in the pipe slot right after the return, and the next
\* handler that is started is called with it.
C13_PipeValueHandoff ==
    pc = "serving" =>
        \A p \in 1..Len(trace) :
            (trace[p].ev = "exit" /\ Returned(p) # <<>> /\ trace[p].err = "") =>
                /\ SlotAfter(p) = Returned(p)
                /\ \A q \in (p + 1)..Len(trace) :
                       (/\ trace[q].ev = "enter"
                        /\ \A r \in (p + 1)..(q - 1) : trace[r].ev # "enter")
                           => trace[q].pv = Returned(p)

\* as in TestPipeline_PipeValue, with a Skip: a handler returned "A" and
\* skipped one entry; the handler after that was called with "A"
C13_Witness ==
    /\ pc = "serving"
    /\ \E p \in 1..Len(trace) : \E q \in (p + 1)..Len(trace) :
           /\ trace[p].ev = "exit" /\ Returned(p) = <<"A">>
           /\ trace[q].ev = "enter" /\ trace[q].pv = <<"A">>
           /\ trace[q].idx = trace[p].idx + 2

\* C14 (nil result keeps the pipe value): when a handler returns a nil value
\* and a nil error the pipe slot after the return is what it was when the
\* handler returned, whether an earlier handler returned it or the handler
\* assigned it.
C14_NilKeepsPipeValue ==
    pc = "serving" =>
        \A p \in 1..Len(trace) :
            (trace[p].ev = "exit" /\ Returned(p) = <<>> /\ trace[p].err = "") =>
                SlotAfter(p) = trace[p].pv

(***************************************************************************)
(* Properties of the matcher.  They are stated on the tree itself: a       *)
(* branch is the list of nodes from below the root down to a node, and it  *)
(* matches a path when its nodes match the path's segments one by one.     *)
(***************************************************************************)
\* the handlers started so far in the request, in the order they were started
RECURSIVE Started(_, _)
Started(tr, fcs) ==
    IF tr = <<>> THEN <<>>
    ELSE IF Head(tr).ev \in {"enter", "errenter"}
         THEN <<fcs[Head(tr).idx + 1]>> \o Started(Tail(tr), fcs)
         ELSE Started(Tail(tr), fcs)

Req == x.Request[1]
Serving(method, path) == pc = "serving" /\ Req.Method = method /\ Req.Path = path

\* the segments the matcher sees in a path: those between the slashes, an
\* empty one after a final slash not counted
Segments(path) ==
    IF path = <<>> THEN <<>>
    ELSE LET ss == Split(path)
         IN IF ss[Len(ss)] = <<>> THEN SubSeq(ss, 1, Len(ss) - 1) ELSE ss

RECURSIVE Branch(_, _)
Branch(h, n) == IF h[n].parent = 0 THEN <<>> ELSE Append(Branch(h, h[n].parent), n)

\* the nodes of the tree under the root
RECURSIVE Attached(_, _)
Attached(h, n) ==
    \/ n = 1
    \/ /\ h[n].parent # 0
       /\ \E i \in 1..Len(h[h[n].parent].children) : h[h[n].parent].children[i] = n
       /\ Attached(h, h[n].parent)

SegMatches(node, seg) ==
    CASE node.kind = "nodeStatic" -> node.fragment = seg
      [] node.kind = "nodeRegex" -> FindSubmatch(node.regex[1], seg, 0) # <<>>
      [] OTHER -> TRUE

\* the nodes of br match the segments segs[i], segs[i+1], ... one by one; a
\* catch-all node takes all the segments that are left, also when none is
RECURSIVE BranchMatches(_, _, _, _)
BranchMatches(h, br, segs, i) ==
    IF br = <<>> THEN i > Len(segs)
    ELSE IF h[Head(br)].kind = "nodeCatchAll"
         THEN BranchMatches(h, Tail(br), segs, Len(segs) + 1)
         ELSE /\ i <= Len(segs)
              /\ SegMatches(h[Head(br)], segs[i])
              /\ BranchMatches(h, Tail(br), segs, i + 1)

Terminal(h, n, method) == method \in DOMAIN h[n].methods \/ "ANY" \in DOMAIN h[n].methods

\* some branch of the tree matches the path and ends in a node with a chain
\* for the method or for ANY
ExistsBranch(h, path, method) ==
    \E n \in 1..Len(h) :
        /\ Attached(h, n)
        /\ Terminal(h, n, method)
        /\ BranchMatches(h, Branch(h, n), Segments(path), 1)

\* the bindings the nodes of br make for the segments from segs[i] on, start
\* being the index in path where segs[i] begins
RECURSIVE BranchParams(_, _, _, _, _, _)
BranchParams(h, br, path, segs, i, start) ==
    IF br = <<>> THEN <<>>
    ELSE LET node == h[Head(br)]
             seg  == IF i <= Len(segs) THEN segs[i] ELSE <<>>
             rest == BranchParams(h, Tail(br), path, segs, i + 1, start + Len(seg) + 1)
             bind(v) == IF node.paramName # <<>> THEN <<Param(node.paramName, v)>> ELSE <<>>
         IN CASE node.kind = "nodeStatic" -> rest
              [] node.kind \in {"nodeParam", "nodeWildcard"} -> bind(seg) \o rest
              [] node.kind = "nodeRegex" -> FindSubmatch(node.regex[1], seg, 0)[1] \o rest
              [] node.kind = "nodeCatchAll" ->
                     bind(IF i <= Len(segs) THEN Slice(path, start, Len(path)) ELSE <<>>)
                       \o BranchParams(h, Tail(br), path, segs, Len(segs) + 1, Len(path))

\* route i was registered, and before route j was
RegisteredBefore(i, j) ==
    \E a \in 1..Len(regs) : /\ regs[a] = i
                            /\ \A b \in 1..a : regs[b] # j
                            /\ \E b \in (a + 1)..Len(regs) : regs[b] = j
Registered(i) == \E a \in 1..Len(regs) : regs[a] = i

pAB  == Join(<<sA, sB>>)
pABA == Join(<<sA, sB, sA>>)
pABB == Join(<<sA, sB, sB>>)

\* C2 (backtracking cleanliness): when match returns a route the path
\* parameters of the context are exactly the bindings of the returned branch,
\* from the root down, with nothing left of a sibling branch that was tried and
\* abandoned; when it returns no route the vector is as long as on entry
\* (empty).
C2_BacktrackingClean ==
    pc = "serving" =>
        IF subR # 0
        THEN x.PathParams = BranchParams(nodes, Branch(nodes, subR), TrimSlashes(Req.Path),
                                         Segments(TrimSlashes(Req.Path)), 1, 0)
        ELSE x.PathParams = <<>>

\* TestRouter_ParamCleanup: /a/{p}/a was tried for /a/b/b, bound p and failed;
\* the request is routed to /a/{f:*} and only f is bound
C2_Witness ==
    /\ Serving("GET", pABB)
    /\ RegisteredBefore(5, 7) /\ ~Registered(6) /\ ~Registered(4)
    /\ x.PathParams = <<Param(<<"f">>, <<"b", "/", "b">>)>>

\* C3 (match completeness): match returns a route exactly when some branch of
\* the tree matches the path segment by segment and ends in a node with a chain
\* for the method or for ANY; and with /a/{p}/a and /a/{q}/b registered, GET
\* /a/b/b is routed to the second with q = b and GET /a/b/a to the first with
\* p = b.
C3_MatchComplete ==
    pc = "serving" =>
        /\ subR # 0 <=> ExistsBranch(nodes, TrimSlashes(Req.Path), Req.Method)
        /\ (Serving("GET", pABB) /\ Registered(5) /\ Registered(6)) =>
               /\ x.fcs = <<RouteHandlerOf(6)>>
               /\ x.PathParams = <<Param(<<"q">>, sB)>>
        /\ (Serving("GET", pABA) /\ Registered(5) /\ Registered(6)) =>
               /\ x.fcs = <<RouteHandlerOf(5)>>
               /\ x.PathParams = <<Param(<<"p">>, sB)>>

\* the first param sibling matches the segment b but its subtree has no
\* terminal for /a/b/b; the later sibling is selected
C3_Witness ==
    /\ Serving("GET", pABB)
    /\ RegisteredBefore(5, 6)
    /\ x.fcs = <<RouteHandlerOf(6)>>
    /\ x.PathParams = <<Param(<<"q">>, sB)>>

\* C9 (specificity over order, param): with /a/{p} registered before /a/b, GET
\* /a/b is still routed to the handler of the static route.
C9_StaticBeforeParam ==
    (Serving("GET", pAB) /\ RegisteredBefore(2, 1)) => x.fcs = <<RouteHandlerOf(1)>>

\* no route of the tree has a param or regex segment
OnlyStaticAndWild ==
    \A n \in 1..Len(nodes) : nodes[n].kind \in {"nodeStatic", "nodeWildcard", "nodeCatchAll"}

\* C10 (specificity over order, wildcard): with /a/b registered, in any order
\* with /a/*, /a/** or /a/{f:*}, GET /a/b is never routed to the wildcard or
\* catch-all route, and it is routed to the handler of the static route when
\* the tree holds no param sibling.
C10_StaticBeforeWildcard ==
    (Serving("GET", pAB) /\ Registered(1)) =>
        /\ subR # 0
        /\ ~IsWild(nodes[subR].kind)
        /\ OnlyStaticAndWild => x.fcs = <<RouteHandlerOf(1)>>

\* /a/* and /a/** were both registered before /a/b
C10_Witness ==
    /\ Serving("GET", pAB)
    /\ RegisteredBefore(3, 1) /\ RegisteredBefore(4, 1)
    /\ x.fcs = <<RouteHandlerOf(1)>>

\* the position of child c in the child list of its parent
ChildPos(h, c) ==
    LET ch == h[h[c].parent].children
    IN CHOOSE i \in 1..Len(ch) : ch[i] = c /\ \A j \in 1..(i - 1) : ch[j] # c

RECURSIVE SegAt(_, _, _, _)
SegAt(h, br, segs, k) ==
    IF k = 1 THEN 1
    ELSE IF h[br[k - 1]].kind = "nodeCatchAll" THEN Len(segs) + 1
    ELSE SegAt(h, br, segs, k - 1) + 1

\* some branch through node s matches the segments from segs[i] on, counted
\* from s, and ends in a node with a chain for the method or for ANY
SubtreeTerminal(h, s, segs, i, method) ==
    \E t \in 1..Len(h) :
        /\ Attached(h, t)
        /\ Terminal(h, t, method)
        /\ LET br == Branch(h, t)
               D  == {k \in 1..Len(br) : br[k] = s}
           IN \E k \in D : BranchMatches(h, SubSeq(br, k, Len(br)), segs, i)

pAA == Join(<<sA, sA>>)

\* C12 (tie-break): the route that match returns lies on the first branch in
\* child order: at every node of its branch no earlier sibling has a matching
\* branch to a terminal, and no node above it on the branch is itself a
\* terminal for the exhausted path; the chain of that route is the one that
\* runs and nothing else does.  With /a/{p} registered before /a/{q} (the
\* only routes with these segments) GET /a/a runs the handler of /a/{p}.
C12_TieBreak ==
    pc = "serving" =>
        /\ subR # 0 =>
             LET br   == Branch(nodes, subR)
                 segs == Segments(TrimSlashes(Req.Path))
                 M    == IF Req.Method \in DOMAIN nodes[subR].methods THEN Req.Method ELSE "ANY"
             IN /\ \A k \in 1..Len(br) :
                       /\ \A j \in 1..(ChildPos(nodes, br[k]) - 1) :
                              ~SubtreeTerminal(nodes, nodes[nodes[br[k]].parent].children[j],
                                               segs, SegAt(nodes, br, segs, k), Req.Method)
                       /\ SegAt(nodes, br, segs, k) > Len(segs) =>
                              ~Terminal(nodes, nodes[br[k]].parent, Req.Method)
                /\ x.fcs = nodes[subR].methods[M].Handlers
                /\ Finished => Started(trace, x.fcs) = x.fcs
        /\ (Serving("GET", pAA) /\ RegisteredBefore(2, 9) /\ ~Registered(6)) =>
               /\ x.fcs = <<RouteHandlerOf(2)>>
               /\ x.PathParams = <<Param(<<"p">>, sA)>>

\* TestRouter_Conflict: both /a/{p} and /a/{q} match /a/a; the handler of
\* the route registered first has run
C12_Witness ==
    /\ Serving("GET", pAA)
    /\ Finished
    /\ RegisteredBefore(2, 9)
    /\ Started(trace, x.fcs) = <<RouteHandlerOf(2)>>

\* C19 (release clears the references): a context that was released holds
\* no request, no response writer, no chain, no introspection vector, no pipe
\* value and no route-local vars, and its cursor is 0.
C19_ReleaseClears ==
    pc = "idle" =>
        /\ x.Request = <<>>
        /\ x.writer = <<>>
        /\ x.fcs = <<>>
        /\ x.fcsInfo = <<>>
        /\ x.PipeValue = <<>>
        /\ x.routeVars = <<>>
        /\ x.fid = 0

\* C20 (release clears the path-parameter storage): in a context that was
\* released no slot of the backing array of the path-parameter vector holds a
\* key or a value, also not a slot written for a branch that was abandoned.
C20_ReleaseClearsParams ==
    pc = "idle" => \A i \in 1..Len(x.ppArray) : x.ppArray[i] = ZeroParam

(***************************************************************************)
(* Properties of the task scheduler.                                       *)
(***************************************************************************)
Goroutines == BagToSet(gos)

\* the caller is inside Stop, in e.wg.Wait()
StopWaiting == \E g \in Goroutines : g.fn = "Stop"

\* the serial worker and the goroutines of startTask
WorkerGoroutines == {g \in Goroutines : g.fn \in {"processSerialTasks", "startTask"}}

Added(k) == em[1].tasks[k] # <<>>
OneTime(k) == Added(k) /\ Item(em[1], k).cfg.interval = 0
Every(k) == Added(k) /\ Item(em[1], k).cfg.interval > 0

\* this step enters the function of task k
Begins(k) == hist'.begun[k] = hist.begun[k] + 1
\* this step is a call of Run(k)
RunCalled(k) == hist'.runs[k] = hist.runs[k] + 1
\* this step is the serial worker entering the function of task k
SerialBegins(k) ==
    \E g \in Goroutines :
        /\ g.fn = "processSerialTasks" /\ g.at = "CompareAndSwap" /\ g.key = k
        /\ [g EXCEPT !.at = "fn"] \in BagToSet(gos')

\* C15 (scheduler shutdown): a Stop() call on a running manager always
\* returns, whenever it comes relative to the runs of the tasks, and when it
\* returns the serial worker and every task goroutine have finished.
C15_StopReturns ==
    /\ [](StopWaiting => <>~StopWaiting)
    /\ [][(StopWaiting /\ ~StopWaiting') => WorkerGoroutines' = {}]_vars

\* the second half of C15 alone: a Stop that returns leaves no worker behind
StopLeavesNoWorker ==
    [][(StopWaiting /\ ~StopWaiting') => WorkerGoroutines' = {}]_vars

\* C16 (at most once): the function of a one-time task is entered at most
\* once, whatever the order of Start, Run(key), Stop and a later Start; a
\* Run(key) on a one-time task that was executed returns without entering the
\* function, and every Run(key) on a periodic task enters it.
C16_AtMostOnce ==
    /\ [](\A k \in Keys : /\ OneTime(k) => hist.begun[k] <= 1
                          /\ Every(k) => hist.manual[k] = hist.runs[k])
    /\ [][\A k \in Keys :
              (RunCalled(k) /\ OneTime(k) /\ hist.begun[k] >= 1)
                  => (hist'.begun = hist.begun /\ CallerFree')]_vars

\* the manager was started, stopped and started again, a one-time task ran
\* from the serial worker, and a Run on it returned without entering the function
C16_Witness ==
    \E k \in Keys : /\ OneTime(k) /\ hist.starts = 2 /\ em[1].running
                    /\ hist.begun[k] = 1 /\ hist.manual[k] = 0 /\ hist.runs[k] = 1
                    /\ CallerFree

\* two calls of Run on a periodic task entered its function twice
RunsEveryTime == \E k \in Keys : Every(k) /\ hist.runs[k] = 2 /\ hist.manual[k] = 2

\* task t is to run after task k: t was added with After(k), or k was added
\* with Before(t)
DependsOn(t, k) ==
    /\ OneTime(t) /\ Added(k)
    /\ \E d, c \in NilTasks :
           /\ Tasks[d].key = t /\ Tasks[c].key = k
           /\ \/ \E a \in 1..Len(Tasks[d].after) : Tasks[d].after[a] = k
              \/ \E b \in 1..Len(Tasks[c].before) : Tasks[c].before[b] = t

\* C17 (dependency ordering): a one-time task that was added with After(K),
\* or that K names in its Before option, does not begin to execute before an
\* execution of K has finished, whatever the order of Add, Start and Run.
C17_DependencyOrder ==
    [][\A t, k \in Keys : (Begins(t) /\ DependsOn(t, k)) => hist.ended[k] >= 1]_vars

Position(k) == CHOOSE p \in 1..Len(em[1].orderedKeys) : em[1].orderedKeys[p] = k

\* C18 (serial order): the simple one-time tasks are executed by the serial
\* worker one at a time and in the order in which they were added, before
\* and after Start: when the worker enters the function of a task, no run of
\* another such task is in progress and every simple one-time task added
\* before it has been entered.
C18_SerialOrder ==
    [][\A k \in Keys :
           SerialBegins(k) =>
               /\ \A g \in Goroutines : ~(g.fn = "processSerialTasks" /\ g.at = "fn")
               /\ \A k0 \in Keys :
                      (Added(k0) /\ IsSimple(Item(em[1], k0)) /\ Position(k0) < Position(k))
                          => hist.begun[k0] >= 1]_vars

\* t is a registered one-time task that was added with After(k)
AddedAfter(t, k) ==
    /\ InTasks(em[1], t) /\ OneTime(t)
    /\ \E a \in 1..Len(Tasks[Item(em[1], t).fn].after) : Tasks[Item(em[1], t).fn].after[a] = k

\* the function of task k was executed and returned an error
Failed(k) == Added(k) /\ hist.ended[k] >= 1 /\ FnErr(Item(em[1], k)) # ""

\* C32 (a failing dependency does not block): when the manager is running
\* and the function of K has returned an error, whether the serial worker,
\* the goroutine of the task or Run(K) called it, every one-time task added
\* with After(K) is eventually executed, unless the manager is stopped or
\* the task cancelled first.
C32_FailureDoesNotBlock ==
    \A t, k \in Keys :
        []((em[1].running /\ AddedAfter(t, k) /\ Failed(k))
               => <>(hist.begun[t] >= 1 \/ ~em[1].running \/ ~InTasks(em[1], t)))

\* e.List(): the keys of e.tasks
List(m) == {k \in Keys : InTasks(m, k)}

\* a call of Cancel(k), or of the CancelFunc of k, has returned
Cancelled(k) == k \in em[1].cancelled

\* C33 (Cancel): once Cancel(key), or the CancelFunc that Add returned for
\* the key, has returned, List() does not report the key and no execution
\* of the function of that task begins any more.
C33_Cancel ==
    /\ [](\A k \in Keys : Cancelled(k) => k \notin List(em[1]))
    /\ [][\A k \in Keys : Cancelled(k) => ~Begins(k)]_vars

\* this step is a call of Add for a key that is registered
IgnoredAdd == hist'.ignored = hist.ignored + 1
\* this step is a call of the CancelFunc that such a call of Add returned
NoopCancel == hist'.noops = hist.noops + 1

\* C34 (duplicate key): a call of Add for a key that is registered leaves
\* the manager as it was (the tasks with their functions, options and
\* dependencies, the order of the keys, the serial channel) and starts no
\* goroutine; every registered task has the function of the call of Add that
\* stored it, so the function of the ignored call is never executed; and a
\* call of the CancelFunc that the ignored Add returned leaves the manager
\* as it was.
C34_DuplicateKey ==
    /\ [][(IgnoredAdd \/ NoopCancel) => UNCHANGED <<em, gos>>]_vars
    /\ [](\A k \in Keys :
              Added(k) => [key |-> k, fn |-> Item(em[1], k).fn, noop |-> FALSE] \in hist.funcs)

\* Add("1", f) was followed by an Add("1", g) with another function and
\* other options, the CancelFunc of the second call was called, and the
\* task of the first call has run
C34_Witness ==
    /\ hist.ignored >= 1 /\ hist.noops >= 1
    /\ \E f \in hist.funcs :
           /\ f.noop /\ InTasks(em[1], f.key)
           /\ Item(em[1], f.key).fn # f.fn
           /\ Tasks[f.fn].after # <<>>
           /\ hist.ended[f.key] >= 1

\* C33 for the tasks that were cancelled before the manager was ever started
CancelBeforeStart ==
    [][\A k \in Keys : (Cancelled(k) /\ Item(em[1], k).cancel = "nil" /\ hist.starts = 0)
                            => ~Begins(k)]_vars

(***************************************************************************)
(* Properties of the chain cache and of SkipBefore, stated on the          *)
(* middleware lists of the nodes.                                          *)
(***************************************************************************)
\* the before middleware of the ancestors of n from the root down to n, and
\* the after middleware from n up to the root
RECURSIVE BeforeDown(_, _)
BeforeDown(h, n) ==
    (IF h[n].parent = 0 THEN <<>> ELSE BeforeDown(h, h[n].parent)) \o h[n].funcBefore
RECURSIVE AfterUp(_, _)
AfterUp(h, n) ==
    h[n].funcAfter \o (IF h[n].parent = 0 THEN <<>> ELSE AfterUp(h, h[n].parent))

ChainCacheCorrect ==
    \A n \in 1..Len(nodes) : InTree(nodes, n) =>
        \A M \in DOMAIN nodes[n].methods :
            /\ M \in DOMAIN nodes[n].handlersCache
            /\ nodes[n].handlersCache[M] =
                   BeforeDown(nodes, n) \o nodes[n].methods[M].Handlers \o AfterUp(nodes, n)

InfoCacheParallel ==
    \A n \in 1..Len(nodes) : InTree(nodes, n) =>
        \A M \in DOMAIN nodes[n].methods :
            /\ M \in DOMAIN nodes[n].handlersInfoCache
            /\ M \in DOMAIN nodes[n].handlersCache
            /\ nodes[n].handlersInfoCache[M] = Infos(nodes[n].handlersCache[M])

\* C7 (chain-cache invariant): after any sequence of Use, After, Set, Clear,
\* SubRouter and Extend calls, for every node of a tree and every method with
\* a record on it, the cached chain is the before middleware of the ancestors
\* from the root down to the node, then the handlers of the record, then the
\* after middleware from the node up to the root, and the cached infos are the
\* infos of the entries of that chain, one by one.
C7_ChainCache == ChainCacheCorrect /\ InfoCacheParallel

NoSkipBefore(fcs) == \A i \in 1..Len(fcs) : ~IsFuncSkipBefore(fcs[i])

\* C8 (SkipBefore scope): with ordinary middleware on the routers, a request
\* to a route registered with SkipBefore as its first handler runs the rest of
\* the route's handlers and then the after middleware of its node and of the
\* ancestors up to the root, and no before middleware; a request to a route
\* without SkipBefore runs the before middleware from the root down, its
\* handlers, and the after middleware.
C8_SkipBeforeScope ==
    (/\ Finished
     /\ subR # 0
     /\ Req.Method \in DOMAIN nodes[subR].methods
     /\ NoSkipBefore(BeforeDown(nodes, subR) \o AfterUp(nodes, subR))) =>
        LET own == nodes[subR].methods[Req.Method].Handlers
        IN /\ (Len(own) > 1 /\ IsFuncSkipBefore(own[1]) /\ NoSkipBefore(Tail(own))) =>
                  Started(trace, x.fcs) = Tail(own) \o AfterUp(nodes, subR)
           /\ NoSkipBefore(own) =>
                  Started(trace, x.fcs) =
                      BeforeDown(nodes, subR) \o own \o AfterUp(nodes, subR)

\* TestPipeline_SkipBefore with the route under a sub-router: a before and an
\* after middleware on the first router, the route registered with SkipBefore
C8_Witness ==
    /\ Finished
    /\ subR # 0
    /\ nodes[subR].parent # 0
    /\ BeforeDown(nodes, subR) = <<BeforeOf(1)>>
    /\ AfterUp(nodes, subR) = <<AfterOf(1)>>
    /\ "GET" \in DOMAIN nodes[subR].methods
    /\ nodes[subR].methods["GET"].Handlers = <<SkipBefore, HandlerOf(1)>>
    /\ Started(trace, x.fcs) = <<HandlerOf(1), AfterOf(1)>>

(***************************************************************************)
(* Properties of method selection and of Clear, under the method           *)
(* specification.                                                          *)
(***************************************************************************)
\* the last call for route i (Set or Clear) was a Clear
Cleared(i) ==
    \E k \in 1..Len(regs) : regs[k] = 0 - i /\ \A j \in (k + 1)..Len(regs) : regs[j] # i

\* the node of the tree for the path of route i, 0 when the tree has none
NodeOfRoute(i) ==
    LET g == get_subrouter(nodes, 1, MethodRoutes[i].path)
    IN IF g.nodes = nodes THEN g.node ELSE 0

\* C21 (404 rule): a request whose path matches no branch that ends in a node
\* with a record for its method or for ANY is answered with status 404, and no
\* handler or middleware runs; no other error status is produced; after
\* Clear(path, M) the node of path has no record for M, so that the request
\* (path, M) is answered with 404 when nothing else matches it.
C21_NotFound ==
    /\ \A i \in 1..Len(MethodRoutes) : Cleared(i) =>
           /\ NodeOfRoute(i) # 0
           /\ MethodRoutes[i].method \notin DOMAIN nodes[NodeOfRoute(i)].methods
    /\ pc = "serving" =>
           /\ status \in {0, 404}
           /\ ~ExistsBranch(nodes, TrimSlashes(Req.Path), Req.Method) =>
                  /\ status = 404
                  /\ subR = 0
                  /\ stack = <<>>
                  /\ trace = <<>>

\* TestRouter_Clear: GET /a was registered and then cleared, and GET /a is
\* answered with 404
C21_Witness ==
    /\ Serving("GET", Join(<<sA>>))
    /\ \E k \in 1..(Len(regs) - 1) : regs[k] = 1 /\ regs[k + 1] = 0 - 1
    /\ Cleared(1)
    /\ status = 404

\* route i has a record: its last call was a Set; LastSet(i) is that call
Live(i) ==
    \E k \in 1..Len(regs) : regs[k] = i /\ \A j \in (k + 1)..Len(regs) : regs[j] # 0 - i
LastSet(i) == CHOOSE k \in 1..Len(regs) : regs[k] = i /\ \A j \in (k + 1)..Len(regs) : regs[j] # i

\* the chain of the request is the before middleware, the handler of the
\* latest registration of route i, and the after middleware
RoutedTo(i) ==
    /\ subR = NodeOfRoute(i)
    /\ x.fcs = BeforeDown(nodes, subR) \o <<MethodHandlerOf(i, LastSet(i))>> \o AfterUp(nodes, subR)

\* C22 (method selection): at the node match returns, the chain of the
\* request's method is used when the node has a record for it, and the ANY
\* chain otherwise; with /a registered for GET and for ANY a GET request runs
\* the GET handler and a PUT request the ANY handler, and with /a registered
\* for ANY alone GET and PUT both run the ANY handler.
C22_MethodSelection ==
    pc = "serving" =>
        /\ subR # 0 =>
               LET M == IF Req.Method \in DOMAIN nodes[subR].methods THEN Req.Method ELSE "ANY"
               IN /\ M \in DOMAIN nodes[subR].methods
                  /\ x.fcs = BeforeDown(nodes, subR) \o nodes[subR].methods[M].Handlers
                                 \o AfterUp(nodes, subR)
        /\ (Serving("GET", pA) /\ Live(1)) => RoutedTo(1)
        /\ (Serving("GET", pA) /\ ~Live(1) /\ Live(2)) => RoutedTo(2)
        /\ (Serving("PUT", pA) /\ Live(2)) => RoutedTo(2)

\* /a has a record for GET and one for ANY; PUT /a has run the ANY handler
C22_Witness ==
    /\ Serving("PUT", pA)
    /\ Finished
    /\ Live(1) /\ Live(2)
    /\ Started(trace, x.fcs) = <<MethodHandlerOf(2, LastSet(2))>>

(***************************************************************************)
(* Properties of the catch-all segment, under the matcher specification.   *)
(***************************************************************************)
\* the path of the request ends at the parent of the route that was matched
EndsAtParent ==
    /\ subR # 0
    /\ nodes[subR].kind = "nodeCatchAll"
    /\ Len(Segments(TrimSlashes(Req.Path))) = Len(Branch(nodes, subR)) - 1

\* C23 (empty remainder): when the path ends at a node that has no record for
\* the method or ANY, the first catch-all child that has one is matched, and
\* its name, if it has one, is bound to the empty string; a parent with a
\* record of its own is matched itself.  With /a/** registered GET /a runs
\* its handler with no parameter; with /a/{f:*} registered GET /a and POST /a
\* run its handler with f = "", unless /a itself is registered for POST.
C23_EmptyRemainder ==
    pc = "serving" =>
        /\ EndsAtParent =>
               /\ ~Terminal(nodes, nodes[subR].parent, Req.Method)
               /\ Terminal(nodes, subR, Req.Method)
               /\ x.PathParams =
                      BranchParams(nodes, Branch(nodes, nodes[subR].parent), TrimSlashes(Req.Path),
                                   Segments(TrimSlashes(Req.Path)), 1, 0)
                      \o (IF nodes[subR].paramName # <<>>
                          THEN <<Param(nodes[subR].paramName, <<>>)>> ELSE <<>>)
        /\ (Serving("GET", pA) /\ Registered(4) /\ ~RegisteredBefore(7, 4)) =>
               /\ EndsAtParent
               /\ x.fcs = <<RouteHandlerOf(4)>>
               /\ x.PathParams = <<>>
        /\ (Serving("GET", pA) /\ Registered(7) /\ ~RegisteredBefore(4, 7)) =>
               /\ EndsAtParent
               /\ x.fcs = <<RouteHandlerOf(7)>>
               /\ x.PathParams = <<Param(<<"f">>, <<>>)>>
        /\ (Serving("POST", pA) /\ Registered(7) /\ ~Registered(8)) =>
               /\ EndsAtParent
               /\ x.fcs = <<RouteHandlerOf(7)>>
               /\ x.PathParams = <<Param(<<"f">>, <<>>)>>
        /\ (Serving("POST", pA) /\ Registered(8)) =>
               /\ ~EndsAtParent
               /\ x.fcs = <<RouteHandlerOf(8)>>

\* /a/{f:*} is registered and /a has no record: GET /a has run the handler of
\* the catch-all route with f bound to the empty string
C23_Witness ==
    /\ Serving("GET", pA)
    /\ Finished
    /\ Registered(7) /\ ~Registered(4) /\ ~Registered(8)
    /\ Started(trace, x.fcs) = <<RouteHandlerOf(7)>>
    /\ x.PathParams = <<Param(<<"f">>, <<>>)>>

\* the segments of the request path
ReqSegments == Segments(TrimSlashes(Req.Path))

BindFails(p) ==
    /\ trace[p].ev = "enter"
    /\ IsAdapted(x.fcs[trace[p].idx + 1])
    /\ x.fcs[trace[p].idx + 1].bind # ""

\* C25 (binder failure): when the closure of an adapted function is called and
\* binding fails, the user function is not invoked, the closure returns the
\* binder's error to X.Next, and the next thing the pipeline does is to call
\* the first error handler after that entry with the binder's error, if the
\* chain has one; when binding succeeds the user function is invoked.
C25_BinderFailure ==
    pc = "serving" =>
        \A p \in 1..Len(trace) :
            /\ BindFails(p) =>
                   LET idx == trace[p].idx
                   IN /\ \A q \in 1..Len(trace) :
                             ~(trace[q].ev = "invoke" /\ trace[q].idx = idx)
                      /\ p < Len(trace) =>
                             /\ trace[p + 1].ev = "exit"
                             /\ trace[p + 1].idx = idx
                             /\ trace[p + 1].err = x.fcs[idx + 1].bind
                      /\ ErrHandlersFrom(x.fcs, idx + 1) # {} =>
                             IF p + 1 < Len(trace)
                             THEN /\ trace[p + 2].ev = "errenter"
                                  /\ trace[p + 2].idx = Min(ErrHandlersFrom(x.fcs, idx + 1))
                                  /\ trace[p + 2].err = x.fcs[idx + 1].bind
                             ELSE stack # <<>>
            /\ (trace[p].ev = "enter" /\ IsAdapted(x.fcs[trace[p].idx + 1]) /\ ~BindFails(p)) =>
                   IF p < Len(trace)
                   THEN trace[p + 1].ev = "invoke" /\ trace[p + 1].idx = trace[p].idx
                   ELSE stack # <<>>

\* binding failed for an adapted function that would itself return no error;
\* the binder's error went past a normal handler to the error handler behind it
C25_Witness ==
    /\ Finished
    /\ \E p \in 1..(Len(trace) - 2) :
           /\ BindFails(p)
           /\ x.fcs[trace[p].idx + 1].err = ""
           /\ trace[p + 2].ev = "errenter"
           /\ trace[p + 2].idx > trace[p].idx + 1
           /\ trace[p + 2].err = "EB"

(***************************************************************************)
(* Properties of registration, under the registration specification.       *)
(***************************************************************************)
\* the supported family: a func whose first parameter is the context, with
\* no second parameter or one that is the empty interface or a pointer to a
\* struct; the bare HTTP pair; the error handler; SkipBefore
InFamily(fn) ==
    LET t == TypeOf(fn)
    IN \/ IsFuncErr(fn)
       \/ IsFuncSkipBefore(fn)
       \/ /\ t.kind = "Func"
          /\ Len(t.out) <= 2
          /\ \/ t.in = <<"*X">>
             \/ Len(t.in) = 2 /\ t.in[1] = "*X" /\ t.in[2] \in {"any", "*struct"}
             \/ t.in = <<"http.ResponseWriter", "*http.Request">>

\* C26 (unsupported signatures): a value outside the supported family never
\* is an entry of a cached chain, and the registration call that is given one
\* ends in a hard failure, through Set (Get), Use or After alike.
C26_UnsupportedRejected ==
    /\ \A n \in 1..Len(nodes) : \A M \in DOMAIN nodes[n].handlersCache :
           \A i \in 1..Len(nodes[n].handlersCache[M]) : InFamily(nodes[n].handlersCache[M][i])
    /\ (\E k \in 1..Len(regs) : ~InFamily(RegValues[regs[k]])) => pc = "fatal"

\* Set with a func that does not take the context, or with an int, is fatal
SetRejects ==
    \A k \in 1..Len(regs) :
        (regs[k] \in {3, 5} /\ \A n \in 1..Len(nodes) : nodes[n].funcBefore \o nodes[n].funcAfter = <<>>)
            => pc = "fatal"

(***************************************************************************)
(* Properties of the binder, under the binder's specification.             *)
(***************************************************************************)
\* the request has a value for the key of field f in the source of f
HasValue(f) ==
    IF f.src = "path" THEN \E i \in 1..Len(x.PathParams) : x.PathParams[i].Key = f.key
    ELSE x.Request[1][f.src][f.key] # <<>>
\* that value
ValueOf(f) ==
    IF f.src = "path"
    THEN x.PathParams[CHOOSE i \in 1..Len(x.PathParams) : x.PathParams[i].Key = f.key].Value
    ELSE x.Request[1][f.src][f.key][1]

MissingFields == {i \in 1..Len(ComplexReq) : ~ComplexReq[i].ptr /\ ~HasValue(ComplexReq[i])}

SetAgain(i) ==
    \E k \in 1..Len(regs) :
        /\ regs[k] = i
        /\ k < LastSet(i)
        /\ \A j \in (k + 1)..Len(regs) : regs[j] # 0 - i

\* the handlers of the registrations of route i before the latest one
EarlierHandlers(i) == {MethodHandlerOf(i, k) : k \in {j \in 1..Len(regs) : regs[j] = i /\ j < LastSet(i)}}

\* the step is a Set of route i, which has a record already
SetsAgain(i) == Live(i) /\ regs' = Append(regs, i)

\* C28 (duplicate registration): a Set for a (path, method) that has a record
\* replaces the record by one with the handlers of this call; the records and
\* cached chains of the other methods of the node and of all other nodes are
\* unchanged; a request that is later routed to the node runs the before
\* middleware, the handler of the latest registration and the after
\* middleware, and no handler of an earlier registration.
C28_DuplicateReplaces ==
    /\ [][\A i \in 1..Len(MethodRoutes) : SetsAgain(i) =>
             LET n == NodeOfRoute(i)
                 m == MethodRoutes[i].method
             IN /\ n # 0
                /\ Len(nodes') = Len(nodes)
                /\ nodes'[n].methods[m].Handlers = <<MethodHandlerOf(i, Len(regs'))>>
                /\ \A j \in 1..Len(nodes) :
                       /\ DOMAIN nodes'[j].methods = DOMAIN nodes[j].methods
                       /\ \A k \in DOMAIN nodes[j].methods : (j # n \/ k # m) =>
                              /\ nodes'[j].methods[k] = nodes[j].methods[k]
                              /\ nodes'[j].handlersCache[k] = nodes[j].handlersCache[k]]_vars
    /\ [](\A i \in 1..Len(MethodRoutes) :
             (pc = "serving" /\ Live(i) /\ subR = NodeOfRoute(i)
                  /\ MethodRoutes[i].method = (IF Req.Method \in DOMAIN nodes[subR].methods
                                               THEN Req.Method ELSE "ANY")) =>
                 /\ RoutedTo(i)
                 /\ \A k \in 1..Len(x.fcs) : x.fcs[k] \notin EarlierHandlers(i)
                 /\ \A k \in 1..Len(Started(trace, x.fcs)) :
                        Started(trace, x.fcs)[k] \notin EarlierHandlers(i))

\* GET /a was registered twice and Use was called on the router, and GET /a
\* has run the middleware and then the handler of the second call
C28_Witness ==
    /\ Serving("GET", pA)
    /\ Finished
    /\ SetAgain(1)
    /\ Started(trace, x.fcs) = <<BeforeOf(1), MethodHandlerOf(1, LastSet(1))>>

(***************************************************************************)
(* Properties of registration concurrent with serving.                     *)
(***************************************************************************)
\* a registration call is in progress; it is the last entry of regs
Registering == gos # <<>>
\* the call in progress is a Set or a Clear of a record other than the one
\* (node n, method m)
OtherRecord(n, m) ==
    /\ Registering
    /\ regs[Len(regs)] # 0
    /\ LET i == IF regs[Len(regs)] > 0 THEN regs[Len(regs)] ELSE 0 - regs[Len(regs)]
       IN NodeOfRoute(i) # n \/ MethodRoutes[i].method # m

\* the step is the match of a request by ServeHTTP
Matches == pc # "serving" /\ pc' = "serving"

\* C29 (registration concurrent with serving): a request that is matched
\* while a Set or a Clear of another record is in progress, and whose path and
\* method lead to a node with a record, gets the complete chain of that
\* record: the before middleware, the handlers of the record and the after
\* middleware; it is not answered with 404.
C29_ConcurrentRegistration ==
    [][(Matches /\ subR' # 0) =>
          LET M == IF Req'.Method \in DOMAIN nodes[subR'].methods THEN Req'.Method ELSE "ANY"
          IN OtherRecord(subR', M) =>
                 /\ status' # 404
                 /\ x'.fcs = BeforeDown(nodes, subR') \o nodes[subR'].methods[M].Handlers
                                 \o AfterUp(nodes, subR')]_vars

(***************************************************************************)
(* Properties of the slicing at SkipBefore, under the specification with   *)
(* SkipBefore registered in any place.                                     *)
(***************************************************************************)
\* the entries of a chain that are not the sentinel
RECURSIVE Handlers(_)
Handlers(fcs) ==
    IF fcs = <<>> THEN <<>>
    ELSE (IF IsFuncSkipBefore(Head(fcs)) THEN <<>> ELSE <<Head(fcs)>>) \o Handlers(Tail(fcs))

IsSuffix(s, t) == Len(s) <= Len(t) /\ s = SubSeq(t, Len(t) - Len(s) + 1, Len(t))

\* C30 (slicing discards only before entries): for every matched route the
\* chain of the request ends with the handlers registered on the route and
\* the after entries of its node and of the ancestors, in that order,
\* wherever SkipBefore was registered; and these have all been started when
\* the request is finished.
C30_SliceKeepsHandlers ==
    (pc = "serving" /\ subR # 0 /\ "GET" \in DOMAIN nodes[subR].methods) =>
        LET kept == Handlers(nodes[subR].methods["GET"].Handlers \o AfterUp(nodes, subR))
        IN /\ IsSuffix(kept, Handlers(x.fcs))
           /\ Finished => IsSuffix(kept, Handlers(Started(trace, x.fcs)))

StartsAfter(p) == {q \in (p + 1)..Len(trace) : trace[q].ev \in {"enter", "errenter"}}

\* the argument of the Skip call of a handler: Skip() is Skip(1)
SkipArg(fc) == IF "u" \in DOMAIN fc.act THEN fc.act.u ELSE Uint(1)

\* C36 (Skip): when the handler at index i has called Skip(n) and returns
\* without error, no entry with an index below i+1+n is started afterwards;
\* the entry at i+1+n, when the chain has one and it is a handler, is the next
\* one started; when i+1+n is past the end of the chain nothing is started
\* any more.
C36_Skip ==
    pc = "serving" =>
        \A p \in 1..Len(trace) :
            (trace[p].ev = "Skip" /\ x.fcs[trace[p].idx + 1].err = "") =>
                LET i == trace[p].idx
                    u == SkipArg(x.fcs[i + 1])
                IN IF u.big \/ i + 1 + u.v >= Len(x.fcs)
                   THEN StartsAfter(p) = {}
                   ELSE /\ \A q \in StartsAfter(p) : trace[q].idx >= i + 1 + u.v
                        /\ (Finished /\ IsFuncX2AnyErr(x.fcs[i + 1 + u.v + 1])) =>
                               /\ StartsAfter(p) # {}
                               /\ trace[Min(StartsAfter(p))].idx = i + 1 + u.v

\* C39 (cursor monotonicity): within one request the entries are started in
\* strictly increasing index order, so that each is started at most once,
\* whatever calls of Next, Skip and Stop and whatever error returns the
\* handlers make.
C39_CursorMonotone ==
    pc = "serving" =>
        \A p \in 1..Len(trace) : \A q \in StartsAfter(p) :
            trace[p].ev \in {"enter", "errenter"} => trace[p].idx < trace[q].idx

(***************************************************************************)
(* Properties of the pooled context, under the pool specification.         *)
(***************************************************************************)
\* the first handler of the request has been entered and has not acted yet
FirstStarted ==
    /\ pc = "serving"
    /\ Len(trace) = 1
    /\ stack # <<>> /\ Top.fn = "fc" /\ Top.pc = "body"

\* C40 (no state leaks through the pool): a request that was matched begins
\* with the cursor at 0; when its first handler starts, it is the entry at
\* index 0 of the chain cached for the
\* route that was matched, the cursor is 1, the path parameters are those of
\* the request's own path, and the pipe value and the route-local vars are
\* empty, whatever the context held when it was released before.
C40_NoLeak ==
    /\ (pc = "serving" /\ subR # 0 /\ trace = <<>>) =>
           /\ stack = <<Frame("Next", "loop", 0, "")>>
           /\ x.fid = 0
    /\ FirstStarted =>
           /\ subR # 0
           /\ x.fcs = nodes[subR].handlersCache["GET"]
           /\ trace[1].ev = "enter" /\ trace[1].idx = 0 /\ trace[1].fid = 0
           /\ Top.idx = 0
           /\ x.fid = 1
           /\ x.PathParams = BranchParams(nodes, Branch(nodes, subR), TrimSlashes(Req.Path),
                                          ReqSegments, 1, 0)
           /\ Len(x.PathParams) = Len(ReqSegments) - 1
           /\ x.PipeValue = <<>>
           /\ x.routeVars = <<>>

\* the context was released by a request to /a/{p}/{q} whose handler called
\* Stop and left a pipe value; the first handler of a request to /b starts
\* with the cursor at 1, no parameter and no pipe value
C40_Witness ==
    /\ FirstStarted
    /\ Req.Path = Join(<<sB>>)
    /\ hist.fid >= StopFid
    /\ Len(hist.pp) = 2
    /\ x.fid = 1 /\ x.PathParams = <<>> /\ x.PipeValue = <<>>

(***************************************************************************)
(* Properties of the shape of the tree.                                    *)
(***************************************************************************)
\* C37 (node uniqueness): no node has two children with the same kind and
\* the same raw segment, whatever registrations were made; a path whose
\* segments exist is therefore registered on the nodes that exist.
C37_NodeUnique ==
    \A n \in 1..Len(nodes) :
        \A i, j \in 1..Len(nodes[n].children) :
            LET ci == nodes[nodes[n].children[i]]
                cj == nodes[nodes[n].children[j]]
            IN (ci.kind = cj.kind /\ ci.fragment = cj.fragment) => i = j

\* C38 (catch-all nodes are leaves): every catch-all node has an empty child
\* list, whatever paths were registered.
C38_CatchAllLeaf ==
    \A n \in 1..Len(nodes) : nodes[n].kind = "nodeCatchAll" => nodes[n].children = <<>>

(***************************************************************************)
(* Properties of distributed tasks.                                        *)
(***************************************************************************)
InFn == {m \in Managers : gos[m].at = "fn"}

\* C31 as stated (distributed mutual exclusion): at most one manager is
\* inside the task function at any moment, for every duration of the task
\* and every lock TTL.
C31_MutualExclusion == Cardinality(InFn) <= 1

\* C31 as amended: at most one manager is inside the task function as long
\* as no execution has lasted for the lock TTL or longer.
C31_MutualExclusionWithinTTL ==
    (\A m \in InFn : gos[m].age < em.ttl) => Cardinality(InFn) <= 1

\* one manager is inside the task function, within the TTL, and the other
\* manager has called executeTask and skipped the execution
C31_Witness ==
    /\ Cardinality(InFn) = 1
    /\ \A m \in InFn : gos[m].age > 0 /\ gos[m].age < em.ttl
    /\ hist.ran = 1
    /\ hist.skipped > 0

=============================================================================
